---------------------------- MODULE Spec2Model ----------------------------
(***************************************************************************)
(* Dictionary cache of whisperly_api: the per-project term index           *)
(* (src/src/services/dictionaryCache.ts), the dictionary mutation handlers *)
(* that invalidate it (src/src/routes/dictionary.ts) and the translate     *)
(* pipeline that matches, wraps and unwraps dictionary terms               *)
(* (src/src/routes/translate.ts).                                          *)
(*                                                                         *)
(* Strings are sequences of UTF-16 code units (numbers), as in JavaScript: *)
(*   97 'a'   65 'A'   32 ' '   304 U+0130 (capital I with dot above)      *)
(*   105 'i'  775 U+0307 (combining dot above)  123 '{'  125 '}'  92 '\'   *)
(***************************************************************************)
EXTENDS Integers, Sequences, FiniteSets, TLC

(***************************************************************************)
(* Characters and strings                                                  *)
(***************************************************************************)

\* \w of a RegExp without the u flag: [A-Za-z0-9_]
IsWordChar(c) ==
    \/ (c >= 97 /\ c <= 122)
    \/ (c >= 65 /\ c <= 90)
    \/ (c >= 48 /\ c <= 57)
    \/ c = 95

\* A letter or a digit in the Unicode sense (what a reader calls part of a word).
\* Of the code units the model uses, the letters are a-z, A-Z, U+0130, U+00B5
\* (micro sign), U+039C and U+03BC (Greek mu) and the digits 0-9.
IsAlnum(c) ==
    \/ (c >= 97 /\ c <= 122)
    \/ (c >= 65 /\ c <= 90)
    \/ (c >= 48 /\ c <= 57)
    \/ c \in {304, 181, 924, 956}

\* String.prototype.toLowerCase on one code unit: A-Z map to a-z, U+0130 maps
\* to the two units U+0069 U+0307 (Unicode SpecialCasing), U+039C maps to
\* U+03BC, the rest (U+00B5 among them) map to themselves.
LowerUnit(c) ==
    IF c >= 65 /\ c <= 90 THEN <<c + 32>>
    ELSE IF c = 304 THEN <<105, 775>>
    ELSE IF c = 924 THEN <<956>>
    ELSE <<c>>

RECURSIVE toLowerCase(_)
toLowerCase(s) ==
    IF s = <<>> THEN <<>> ELSE LowerUnit(Head(s)) \o toLowerCase(Tail(s))

\* Canonicalize of a RegExp with the i flag and without the u flag: the
\* upper-case form of the unit, kept only when it is a single unit (a-z map
\* to A-Z; U+00B5 and U+03BC both map to U+039C; U+0130 is its own upper
\* case).
Canonicalize(c) ==
    IF c >= 97 /\ c <= 122 THEN c - 32
    ELSE IF c \in {181, 956} THEN 924
    ELSE c

\* s.slice(from, to) for 0 <= from, with JavaScript's clamping of the indices.
Slice(s, from, to) ==
    LET n == Len(s)
        f == IF from > n THEN n ELSE from
        t == IF to > n THEN n ELSE to
    IN  IF t <= f THEN <<>> ELSE SubSeq(s, f + 1, t)

\* s.indexOf(p): the least 0-based position at which p occurs in s, or -1.
indexOf(s, p) ==
    LET hits == {i \in 0..(Len(s) - Len(p)) : Slice(s, i, i + Len(p)) = p}
    IN  IF hits = {} THEN -1 ELSE CHOOSE i \in hits : \A j \in hits : i <= j


(***************************************************************************)
(* Term index construction: loadProjectCache                               *)
(***************************************************************************)

\* An insertion-ordered Map<string, string> is a sequence of [key, value]
\* records; Map.has and Map.get.
MapHas(m, k) == \E i \in 1..Len(m) : m[i].key = k

MapGet(m, k) == m[CHOOSE i \in 1..Len(m) : m[i].key = k].value

\* Array.from(map.keys()): the keys in insertion order.
MapKeys(m) == [i \in 1..Len(m) |-> m[i].key]

\* The loop body with a new inner map made for every entry: a dictionary
\* keeps only the language of its last row.
DictMapSetFresh(dm, e) ==
    [d \in DOMAIN dm \cup {e.dictionary_id} |->
       IF d = e.dictionary_id
       THEN [l \in {e.language_code} |-> e.text]
       ELSE dm[d]]

\* dictionary_map after the loop body's lines 98-103 for one entry: the
\* entry's language is set (or overwritten) in its dictionary's inner map.
DictMapSet(dm, e) ==
    LET inner == IF e.dictionary_id \in DOMAIN dm THEN dm[e.dictionary_id] ELSE <<>>
        inner2 == [l \in DOMAIN inner \cup {e.language_code} |->
                     IF l = e.language_code THEN e.text ELSE inner[l]]
    IN  [d \in DOMAIN dm \cup {e.dictionary_id} |->
           IF d = e.dictionary_id THEN inner2 ELSE dm[d]]

RECURSIVE BuildDictionaryMap(_, _)
BuildDictionaryMap(entries, dm) ==
    IF entries = <<>> THEN dm
    ELSE BuildDictionaryMap(Tail(entries), DictMapSet(dm, Head(entries)))

\* The loop body without the has() test: the last row of a text owns it.
TextMapSetLast(tm, e) ==
    LET lowerText == toLowerCase(e.text)
    IN  IF ~MapHas(tm, lowerText)
        THEN Append(tm, [key |-> lowerText, value |-> e.dictionary_id])
        ELSE [i \in 1..Len(tm) |->
                IF tm[i].key = lowerText
                THEN [key |-> lowerText, value |-> e.dictionary_id]
                ELSE tm[i]]

\* text_map after the loop body's lines 107-110 for one entry.
TextMapSet(tm, e) ==
    LET lowerText == toLowerCase(e.text)
    IN  IF ~MapHas(tm, lowerText)
        THEN Append(tm, [key |-> lowerText, value |-> e.dictionary_id])
        ELSE tm

RECURSIVE BuildTextMap(_, _)
BuildTextMap(entries, tm) ==
    IF entries = <<>> THEN tm
    ELSE BuildTextMap(Tail(entries), TextMapSet(tm, Head(entries)))

\* The same step for a comparator (a, b) => a.length - b.length.
InsertByLengthAsc(sorted, x) ==
    LET k == Cardinality({i \in 1..Len(sorted) : Len(sorted[i]) <= Len(x)})
    IN  SubSeq(sorted, 1, k) \o <<x>> \o SubSeq(sorted, k + 1, Len(sorted))

\* The same step for a sort that is not stable: x goes before the elements
\* of its own length.
InsertByLengthUnstable(sorted, x) ==
    LET k == Cardinality({i \in 1..Len(sorted) : Len(sorted[i]) > Len(x)})
    IN  SubSeq(sorted, 1, k) \o <<x>> \o SubSeq(sorted, k + 1, Len(sorted))

\* One step of the stable sort by (a, b) => b.length - a.length: x goes after
\* every element that is at least as long.
InsertByLength(sorted, x) ==
    LET k == Cardinality({i \in 1..Len(sorted) : Len(sorted[i]) >= Len(x)})
    IN  SubSeq(sorted, 1, k) \o <<x>> \o SubSeq(sorted, k + 1, Len(sorted))

RECURSIVE SortByLengthDesc(_, _)
SortByLengthDesc(keys, sorted) ==
    IF keys = <<>> THEN sorted
    ELSE SortByLengthDesc(Tail(keys), InsertByLength(sorted, Head(keys)))

\* The ProjectDictionaryCache loadProjectCache returns for the rows the query
\* gave, at time t.  instance is the identity of the returned object.
BuildCache(entries, t, inst) ==
    LET tm == BuildTextMap(entries, <<>>)
    IN  [dictionary_map |-> BuildDictionaryMap(entries, <<>>),
         text_map       |-> tm,
         terms_sorted   |-> SortByLengthDesc(MapKeys(tm), <<>>),
         loaded_at      |-> t,
         instance       |-> inst]

isCacheEmpty(cache) == Len(cache.terms_sorted) = 0

\* serializeCache: the two maps as plain objects.
serializeCache(cache) ==
    [text_map |-> [t \in {cache.text_map[i].key : i \in 1..Len(cache.text_map)} |->
                     MapGet(cache.text_map, t)],
     dictionary_map |-> cache.dictionary_map]

(***************************************************************************)
(* Term matching: escapeRegex, findDictionaryTerms                         *)
(***************************************************************************)

\* The characters of the class [.*+?^${}()|[\]\\]
RegexSpecial == {46, 42, 43, 63, 94, 36, 123, 125, 40, 41, 124, 91, 93, 92}

RECURSIVE escapeRegex(_)
escapeRegex(str) ==
    IF str = <<>> THEN <<>>
    ELSE (IF Head(str) \in RegexSpecial THEN <<92, Head(str)>> ELSE <<Head(str)>>)
         \o escapeRegex(Tail(str))

\* The atoms of the pattern new RegExp reads between the two \b: a backslash
\* makes the next character a literal, any other character of an escaped term
\* stands for itself.
RECURSIVE PatternAtoms(_)
PatternAtoms(src) ==
    IF src = <<>> THEN <<>>
    ELSE IF Head(src) = 92 /\ Len(src) >= 2
         THEN <<src[2]>> \o PatternAtoms(Tail(Tail(src)))
         ELSE <<Head(src)>> \o PatternAtoms(Tail(src))

\* \b at position i (0-based, between text[i-1] and text[i]).
WordBoundary(text, i) ==
    LET before == i > 0 /\ IsWordChar(text[i])
        after  == i < Len(text) /\ IsWordChar(text[i + 1])
    IN  before # after

\* The pattern \b<atoms>\b with the i flag matches at position i.
MatchesAt(text, atoms, i) ==
    /\ i + Len(atoms) <= Len(text)
    /\ WordBoundary(text, i)
    /\ \A k \in 1..Len(atoms) : Canonicalize(text[i + k]) = Canonicalize(atoms[k])
    /\ WordBoundary(text, i + Len(atoms))

\* regex.exec(text) of a global RegExp whose lastIndex is lastIndex: the start
\* of the leftmost match at or after lastIndex, or -1 (null).
RegexExec(text, atoms, lastIndex) ==
    LET hits == {i \in lastIndex..Len(text) : MatchesAt(text, atoms, i)}
    IN  IF hits = {} THEN -1 ELSE CHOOSE i \in hits : \A j \in hits : i <= j

\* An overlap test that sees only candidates covering the start of a used
\* range.
overlapsAtStart(usedRanges, start, end) ==
    \E r \in 1..Len(usedRanges) :
        start <= usedRanges[r].start /\ end > usedRanges[r].start

\* overlaps(start, end) of findDictionaryTerms.
overlaps(usedRanges, start, end) ==
    \E r \in 1..Len(usedRanges) :
        start < usedRanges[r].end /\ end > usedRanges[r].start

\* The while loop recording the index term in place of the matched text.
RECURSIVE ScanTermLower(_, _, _, _, _, _)
ScanTermLower(text, cache, termLower, atoms, lastIndex, acc) ==
    LET start == RegexExec(text, atoms, lastIndex)
        end   == start + Len(atoms)
    IN  IF start = -1 THEN acc
        ELSE IF overlaps(acc.usedRanges, start, end)
             THEN ScanTermLower(text, cache, termLower, atoms, end, acc)
             ELSE ScanTermLower(text, cache, termLower, atoms, end,
                    [matches |-> Append(acc.matches,
                                   [term |-> termLower,
                                    start |-> start,
                                    end |-> end,
                                    dictionaryId |-> MapGet(cache.text_map, termLower)]),
                     usedRanges |-> Append(acc.usedRanges,
                                      [start |-> start, end |-> end])])

\* The while loop of findDictionaryTerms for one term, from lastIndex on.
\* acc is [matches, usedRanges].
RECURSIVE ScanTerm(_, _, _, _, _, _)
ScanTerm(text, cache, termLower, atoms, lastIndex, acc) ==
    LET start == RegexExec(text, atoms, lastIndex)
        end   == start + Len(atoms)
    IN  IF start = -1 THEN acc
        ELSE IF overlaps(acc.usedRanges, start, end)
             THEN ScanTerm(text, cache, termLower, atoms, end, acc)
             ELSE ScanTerm(text, cache, termLower, atoms, end,
                    [matches |-> Append(acc.matches,
                                   [term |-> Slice(text, start, end),
                                    start |-> start,
                                    end |-> end,
                                    dictionaryId |-> MapGet(cache.text_map, termLower)]),
                     usedRanges |-> Append(acc.usedRanges,
                                      [start |-> start, end |-> end])])

\* The for loop of findDictionaryTerms over cache.terms_sorted.
RECURSIVE ScanTerms(_, _, _, _)
ScanTerms(text, cache, terms, acc) ==
    IF terms = <<>> THEN acc
    ELSE ScanTerms(text, cache, Tail(terms),
           ScanTerm(text, cache, Head(terms),
                    PatternAtoms(escapeRegex(Head(terms))), 0, acc))

\* One step of the stable sort by (a, b) => a.start - b.start.
InsertByStart(sorted, m) ==
    LET k == Cardinality({i \in 1..Len(sorted) : sorted[i].start <= m.start})
    IN  SubSeq(sorted, 1, k) \o <<m>> \o SubSeq(sorted, k + 1, Len(sorted))

RECURSIVE SortByStart(_, _)
SortByStart(ms, sorted) ==
    IF ms = <<>> THEN sorted
    ELSE SortByStart(Tail(ms), InsertByStart(sorted, Head(ms)))

findDictionaryTerms(text, cache) ==
    SortByStart(ScanTerms(text, cache, cache.terms_sorted,
                          [matches |-> <<>>, usedRanges |-> <<>>]).matches, <<>>)

(***************************************************************************)
(* Wrap and unwrap: wrapTermsWithBrackets, unwrapAndTranslate              *)
(***************************************************************************)

\* `{{${term}}}`
Bracketed(term) == <<123, 123>> \o term \o <<125, 125>>

\* The same step for a comparator (a, b) => a.start - b.start: the ranges
\* are then processed from the lowest offset to the highest.
InsertByStartAsc(sorted, m) ==
    LET k == Cardinality({i \in 1..Len(sorted) : sorted[i].start <= m.start})
    IN  SubSeq(sorted, 1, k) \o <<m>> \o SubSeq(sorted, k + 1, Len(sorted))

\* One step of the stable sort by (a, b) => b.start - a.start.
InsertByStartDesc(sorted, m) ==
    LET k == Cardinality({i \in 1..Len(sorted) : sorted[i].start >= m.start})
    IN  SubSeq(sorted, 1, k) \o <<m>> \o SubSeq(sorted, k + 1, Len(sorted))

RECURSIVE SortByStartDesc(_, _)
SortByStartDesc(ms, sorted) ==
    IF ms = <<>> THEN sorted
    ELSE SortByStartDesc(Tail(ms), InsertByStartDesc(sorted, Head(ms)))

RECURSIVE WrapLoop(_, _)
WrapLoop(result, sortedMatches) ==
    IF sortedMatches = <<>> THEN result
    ELSE LET match == Head(sortedMatches)
         IN  WrapLoop(Slice(result, 0, match.start)
                        \o Bracketed(match.term)
                        \o Slice(result, match.end, Len(result)),
                      Tail(sortedMatches))

wrapTermsWithBrackets(text, matches) ==
    WrapLoop(text, SortByStartDesc(matches, <<>>))

\* The loop body with a search for the bare term when the marker is not found.
UnwrapOneBareTerm(result, match, targetLanguage, cache) ==
    LET bracketedTerm == Bracketed(match.term)
        pos == indexOf(toLowerCase(result), toLowerCase(bracketedTerm))
        bare == indexOf(toLowerCase(result), toLowerCase(match.term))
        hasLang == /\ match.dictionaryId \in DOMAIN cache.dictionary_map
                   /\ targetLanguage \in DOMAIN cache.dictionary_map[match.dictionaryId]
        replacement == IF hasLang
                       THEN cache.dictionary_map[match.dictionaryId][targetLanguage]
                       ELSE match.term
    IN  IF pos # -1
        THEN Slice(result, 0, pos) \o replacement
               \o Slice(result, pos + Len(bracketedTerm), Len(result))
        ELSE IF bare # -1
        THEN Slice(result, 0, bare) \o replacement
               \o Slice(result, bare + Len(match.term), Len(result))
        ELSE result

\* The body of unwrapAndTranslate's loop for one match.
UnwrapOne(result, match, targetLanguage, cache) ==
    LET bracketedTerm == Bracketed(match.term)
        pos == indexOf(toLowerCase(result), toLowerCase(bracketedTerm))
        hasLang == /\ match.dictionaryId \in DOMAIN cache.dictionary_map
                   /\ targetLanguage \in DOMAIN cache.dictionary_map[match.dictionaryId]
        replacement == IF hasLang
                       THEN cache.dictionary_map[match.dictionaryId][targetLanguage]
                       ELSE match.term
    IN  IF pos = -1 THEN result
        ELSE Slice(result, 0, pos) \o replacement
               \o Slice(result, pos + Len(bracketedTerm), Len(result))

RECURSIVE UnwrapLoop(_, _, _, _)
UnwrapLoop(result, matches, targetLanguage, cache) ==
    IF matches = <<>> THEN result
    ELSE UnwrapLoop(UnwrapOne(result, Head(matches), targetLanguage, cache),
                    Tail(matches), targetLanguage, cache)

unwrapAndTranslate(translatedText, matches, targetLanguage, cache) ==
    UnwrapLoop(translatedText, matches, targetLanguage, cache)


(***************************************************************************)
(* Terms reported without mediation: extractDictionaryTerms                *)
(***************************************************************************)

\* strings.join(" ")
RECURSIVE Join(_)
Join(strings) ==
    IF strings = <<>> THEN <<>>
    ELSE IF Len(strings) = 1 THEN strings[1]
    ELSE strings[1] \o <<32>> \o Join(Tail(strings))

\* s.includes(p)
includes(s, p) == indexOf(s, p) # -1

\* Array.from of a Set after add(x): the elements in insertion order.
SetAdd(elems, x) ==
    IF \E i \in 1..Len(elems) : elems[i] = x THEN elems ELSE Append(elems, x)

\* The for loop of extractDictionaryTerms over dictionaryTerms.
RECURSIVE ExtractLoop(_, _, _)
ExtractLoop(combinedText, dictionaryTerms, foundTerms) ==
    IF dictionaryTerms = <<>> THEN foundTerms
    ELSE ExtractLoop(combinedText, Tail(dictionaryTerms),
           IF includes(combinedText, toLowerCase(Head(dictionaryTerms)))
           THEN SetAdd(foundTerms, Head(dictionaryTerms))
           ELSE foundTerms)

extractDictionaryTerms(strings, dictionaryTerms) ==
    ExtractLoop(toLowerCase(Join(strings)), dictionaryTerms, <<>>)

(***************************************************************************)
(* The server: dictionary tables, the process-wide cache, requests in      *)
(* flight                                                                  *)
(***************************************************************************)

Entities == {"e1"}
Projects == {"p1", "p2"}
DictIds == {"d1", "d2"}
Langs == {"en", "es"}
\* Requests in flight at once: two translate requests, which read the cache,
\* and one dictionary request, which writes the tables.
Readers == {"r1", "r2"}
Writers == {"w1"}
\* A third translate request, for the runs with three readers.
ScopeReaders == Readers \cup {"r3"}
Slots == ScopeReaders \cup Writers

\* DICTIONARY_CACHE_TTL_MS: the model runs with a TTL of 1 clock tick.
CACHE_TTL_MS == 1

\* The clock stops here.
MaxTime == 2

\* `${entityId}:${projectId}` (ids are UUIDs: the key determines the pair).
getCacheKey(entityId, projectId) == <<entityId, projectId>>

Scopes == {getCacheKey(e, p) : e \in Entities, p \in Projects}

\* projectCaches.get(key) === undefined
NoCache == [instance |-> 0]

\* No row of the dictionary table.
NoScope == <<"", "">>

\* The request bodies the handlers are run with: Object.entries(translations).
Payloads ==
    { << [language_code |-> "en", text |-> <<97>>] >>,
      << [language_code |-> "en", text |-> <<65>>],
         [language_code |-> "es", text |-> <<97, 32, 97>>] >> }

VARIABLES
    dictionaryTable,  \* dictionary: id -> <<entity_id, project_id>> or NoScope
    dictionaryEntry,  \* dictionary_entry: the rows, in physical order
    projectCaches,    \* cache key -> ProjectDictionaryCache or NoCache
    now,              \* Date.now()
    req,              \* slot -> the request it runs, its position and locals
    built,            \* history: built[i] is the store version instance i was built from
    ver,              \* history: scope -> number of committed row changes
    completed,        \* history: scope -> version written by mutations that have responded
    inv,              \* history: scope -> number of invalidateProjectCache calls
    pendingInv,       \* history: scope -> invalidated and no get has returned since
    t_rows, t_text, t_lang, t_pc, t_cache, t_matches, t_wrapped, t_translated, t_result,
    h,                \* the translate request: its body, its position and its locals
    scan              \* the loops of one findDictionaryTerms call: position and locals

serverVars == <<dictionaryTable, dictionaryEntry, projectCaches, now, req,
                built, ver, completed, inv, pendingInv>>
pathVars == <<t_rows, t_text, t_lang, t_pc, t_cache, t_matches, t_wrapped,
              t_translated, t_result>>
textVars == <<pathVars, h, scan>>
vars == <<serverVars, textVars>>

Idle ==
    [kind |-> "idle", pc |-> "idle", entityId |-> "", projectId |-> "",
     payload |-> <<>>, dictionaryId |-> "", i |-> 0, status |-> 0,
     existing |-> NoCache, result |-> NoCache, rows |-> <<>>, startTime |-> 0,
     queried |-> FALSE, installed |-> FALSE, snap |-> 0, mustSee |-> 0,
     afterInval |-> FALSE, readInv |-> 0, retInv |-> 0, overlap |-> {},
     disturbed |-> FALSE, invalidated |-> <<>>, wroteScopes |-> {},
     wroteAfterInval |-> FALSE, lastWrite |-> 0]

\* a with the fields of b replaced
Merge(a, b) == [k \in DOMAIN a |-> IF k \in DOMAIN b THEN b[k] ELSE a[k]]

KeyOf(q) == getCacheKey(q.entityId, q.projectId)

\* A getProjectCache call that has returned a cache.
Returned(q) == q.kind = "get" /\ q.pc = "done" /\ q.status = 200

\* A getProjectCache call that has failed.
Failed(q) == q.kind = "get" /\ q.pc = "done" /\ q.status = 500

InFlightGet(q, key) ==
    q.kind = "get" /\ q.pc \in {"querying", "loaded"} /\ KeyOf(q) = key

\* History: a row change or an invalidation of key during a get's flight.
Disturb(rq, key) ==
    [q \in Slots |-> IF InFlightGet(rq[q], key)
                     THEN [rq[q] EXCEPT !.disturbed = TRUE] ELSE rq[q]]

Max(a, b) == IF a >= b THEN a ELSE b

\* isCacheExpired with >= for >: an entry exactly TTL old counts as expired.
isCacheExpiredAtTtl(cache, t) == t - cache.loaded_at >= CACHE_TTL_MS

\* Line 62, with t the value of Date.now().
isCacheExpired(cache, t) == t - cache.loaded_at > CACHE_TTL_MS

\* The rows loadProjectCache's query returns: dictionary_entry joined with
\* dictionary on the entity and the project.
ScopeRows(entityId, projectId) ==
    SelectSeq(dictionaryEntry,
              LAMBDA e : dictionaryTable[e.dictionary_id] = getCacheKey(entityId, projectId))

ServerInit ==
    /\ dictionaryTable = [d \in DictIds |-> IF d = "d1" THEN getCacheKey("e1", "p1") ELSE NoScope]
    /\ dictionaryEntry = << [dictionary_id |-> "d1", language_code |-> "en", text |-> <<97>>] >>
    /\ projectCaches = [k \in Scopes |-> NoCache]
    /\ now = 0
    /\ req = [r \in Slots |-> Idle]
    /\ built = <<>>
    /\ ver = [k \in Scopes |-> 0]
    /\ completed = [k \in Scopes |-> 0]
    /\ inv = [k \in Scopes |-> 0]
    /\ pendingInv = [k \in Scopes |-> FALSE]

(***************************************************************************)
(* getProjectCache                                                         *)
(***************************************************************************)

\* Lines 135-138 and, on a hit, 144: the synchronous part of getProjectCache.
\* On a miss the query of loadProjectCache is sent and the call awaits.
GetStart(r, entityId, projectId) ==
    LET key == getCacheKey(entityId, projectId)
        existing == projectCaches[key]
        others == {q \in Slots : InFlightGet(req[q], key)}
        base == Merge(Idle, [kind |-> "get", entityId |-> entityId,
                             projectId |-> projectId, existing |-> existing,
                             startTime |-> now, mustSee |-> completed[key]])
    IN  /\ req[r].kind = "idle"
        /\ IF existing = NoCache \/ isCacheExpired(existing, now)
           THEN /\ req' = [q \in Slots |->
                             IF q = r THEN Merge(base, [pc |-> "querying", overlap |-> others])
                             ELSE IF q \in others
                                  THEN [req[q] EXCEPT !.overlap = @ \cup {r}]
                                  ELSE req[q]]
                /\ UNCHANGED pendingInv
           ELSE /\ req' = [req EXCEPT ![r] =
                             Merge(base, [pc |-> "done", status |-> 200,
                                          result |-> existing,
                                          afterInval |-> pendingInv[key],
                                          retInv |-> inv[key]])]
                /\ pendingInv' = [pendingInv EXCEPT ![key] = FALSE]
        /\ UNCHANGED <<textVars, dictionaryTable, dictionaryEntry, projectCaches, now,
                       built, ver, completed, inv>>

\* The query of lines 77-90 filtering on the entity and not on the project.
GetQueryAnyProject(r) ==
    /\ req[r].kind = "get" /\ req[r].pc = "querying"
    /\ req' = [req EXCEPT ![r] =
                 Merge(@, [pc |-> "loaded", queried |-> TRUE,
                           rows |-> SelectSeq(dictionaryEntry,
                                      LAMBDA e : dictionaryTable[e.dictionary_id][1] = @.entityId),
                           snap |-> ver[KeyOf(@)],
                           readInv |-> inv[KeyOf(@)]])]
    /\ UNCHANGED <<textVars, dictionaryTable, dictionaryEntry, projectCaches, now,
                   built, ver, completed, inv, pendingInv>>

\* The database runs the query of lines 77-90.
GetQuery(r) ==
    /\ req[r].kind = "get" /\ req[r].pc = "querying"
    /\ req' = [req EXCEPT ![r] =
                 Merge(@, [pc |-> "loaded", queried |-> TRUE,
                           rows |-> ScopeRows(@.entityId, @.projectId),
                           snap |-> ver[KeyOf(@)],
                           readInv |-> inv[KeyOf(@)]])]
    /\ UNCHANGED <<textVars, dictionaryTable, dictionaryEntry, projectCaches, now,
                   built, ver, completed, inv, pendingInv>>

\* The query has resolved: lines 92-123 build the cache, lines 140-141 store
\* and return it.
GetInstall(r) ==
    LET key == KeyOf(req[r])
        cache == BuildCache(req[r].rows, now, Len(built) + 1)
    IN  /\ req[r].kind = "get" /\ req[r].pc = "loaded"
        /\ projectCaches' = [projectCaches EXCEPT ![key] = cache]
        /\ built' = Append(built, req[r].snap)
        /\ req' = [req EXCEPT ![r] =
                     Merge(@, [pc |-> "done", status |-> 200, result |-> cache,
                               installed |-> TRUE,
                               afterInval |-> pendingInv[key],
                               retInv |-> inv[key]])]
        /\ pendingInv' = [pendingInv EXCEPT ![key] = FALSE]
        /\ UNCHANGED <<textVars, dictionaryTable, dictionaryEntry, now, ver, completed, inv>>

\* An invalidation that clears the whole map, as clearAllCaches does.
InvalidateAll(r, entityId, projectId, rq) ==
    LET key == getCacheKey(entityId, projectId)
    IN  /\ projectCaches' = [k \in Scopes |-> NoCache]
        /\ inv' = [inv EXCEPT ![key] = @ + 1]
        /\ pendingInv' = [pendingInv EXCEPT ![key] = TRUE]
        /\ req' = Disturb([rq EXCEPT ![r].invalidated = Append(@, key)], key)

\* invalidateProjectCache, called by request r; the history variables record it.
Invalidate(r, entityId, projectId, rq) ==
    LET key == getCacheKey(entityId, projectId)
    IN  /\ projectCaches' = [projectCaches EXCEPT ![key] = NoCache]
        /\ inv' = [inv EXCEPT ![key] = @ + 1]
        /\ pendingInv' = [pendingInv EXCEPT ![key] = TRUE]
        /\ req' = Disturb([rq EXCEPT ![r].invalidated = Append(@, key)], key)

(***************************************************************************)
(* Dictionary mutation handlers: POST, PUT, DELETE                         *)
(***************************************************************************)

\* The outcome of getEntityWithPermission and verifyProjectOwnership.
AuthOutcomes == {"ok", "forbidden", "noproject"}

AuthStatus(auth) == IF auth = "forbidden" THEN 403 ELSE 404

\* LOWER() of the database on the ASCII texts of the request bodies.
RECURSIVE SqlLower(_)
SqlLower(s) ==
    IF s = <<>> THEN <<>>
    ELSE <<(IF Head(s) >= 65 /\ Head(s) <= 90 THEN Head(s) + 32 ELSE Head(s))>>
         \o SqlLower(Tail(s))

\* insert ... onConflictDoUpdate on (dictionary_id, language_code).
UpsertEntry(entries, d, lang, text) ==
    IF \E k \in 1..Len(entries) :
           entries[k].dictionary_id = d /\ entries[k].language_code = lang
    THEN [k \in 1..Len(entries) |->
            IF entries[k].dictionary_id = d /\ entries[k].language_code = lang
            THEN [entries[k] EXCEPT !.text = text] ELSE entries[k]]
    ELSE Append(entries, [dictionary_id |-> d, language_code |-> lang, text |-> text])

\* History: request q has changed a row of key, which is now at version v.
Wrote(q, key, v) ==
    Merge(q, [wroteScopes |-> q.wroteScopes \cup {key},
              lastWrite |-> v,
              wroteAfterInval |-> q.wroteAfterInval \/ Len(q.invalidated) > 0])

\* The handler returns c.json(..., status).
Done(q, status) == Merge(q, [pc |-> "done", status |-> status])

\* Lines 182-203 of POST: permission and project checks.
PostStart(r, entityId, projectId, auth, payload) ==
    /\ req[r].kind = "idle"
    /\ req' = [req EXCEPT ![r] =
                 LET q == Merge(Idle, [kind |-> "post", entityId |-> entityId,
                                       projectId |-> projectId])
                 IN  IF auth = "ok" THEN Merge(q, [pc |-> "lookup", payload |-> payload])
                     ELSE Done(q, AuthStatus(auth))]
    /\ UNCHANGED <<textVars, dictionaryTable, dictionaryEntry, projectCaches, now,
                   built, ver, completed, inv, pendingInv>>

\* The rows the lookup query of lines 209-223 matches for one payload entry.
LookupMatches(entityId, projectId, pe) ==
    SelectSeq(ScopeRows(entityId, projectId),
              LAMBDA e : /\ e.language_code = pe.language_code
                         /\ SqlLower(e.text) = SqlLower(pe.text))

\* Lines 206-229: the first payload entry with a matching row decides.
PostLookup(r) ==
    LET q == req[r]
        hits == {k \in 1..Len(q.payload) :
                   LookupMatches(q.entityId, q.projectId, q.payload[k]) # <<>>}
        first == CHOOSE k \in hits : \A j \in hits : k <= j
    IN  /\ q.kind = "post" /\ q.pc = "lookup"
        /\ req' = [req EXCEPT ![r] =
                     IF hits # {}
                     THEN Merge(q, [pc |-> "upsert", i |-> 1,
                                    dictionaryId |->
                                      LookupMatches(q.entityId, q.projectId,
                                                    q.payload[first])[1].dictionary_id])
                     ELSE Merge(q, [pc |-> "insertDict"])]
        /\ UNCHANGED <<textVars, dictionaryTable, dictionaryEntry, projectCaches, now,
                       built, ver, completed, inv, pendingInv>>

\* One upsert of the loops at lines 233-251 (POST) and 360-378 (PUT): the
\* database commits it, or rejects it when the dictionary row is gone
\* (foreign key), and the handler goes on to the next entry or to the
\* timestamp update.
UpsertStep(r) ==
    LET q == req[r]
        d == q.dictionaryId
        key == dictionaryTable[d]
        pe == q.payload[q.i]
    IN  IF key = NoScope
        THEN /\ req' = [req EXCEPT ![r] = Done(q, 500)]
             /\ UNCHANGED <<dictionaryEntry, ver>>
        ELSE /\ dictionaryEntry' = UpsertEntry(dictionaryEntry, d, pe.language_code, pe.text)
             /\ ver' = [ver EXCEPT ![key] = @ + 1]
             /\ req' = Disturb([req EXCEPT ![r] =
                                  Merge(Wrote(q, key, ver[key] + 1),
                                        [i |-> q.i + 1,
                                         pc |-> IF q.i = Len(q.payload)
                                                THEN "timestamp" ELSE "upsert"])],
                               key)

PostUpsert(r) ==
    /\ req[r].kind = "post" /\ req[r].pc = "upsert"
    /\ UpsertStep(r)
    /\ UNCHANGED <<textVars, dictionaryTable, projectCaches, now, built, completed, inv, pendingInv>>

\* Lines 254-260: the timestamp update has resolved and the handler
\* invalidates the cache, then sends the query of getDictionaryTranslations.
PostInvalidate(r) ==
    /\ req[r].kind = "post" /\ req[r].pc = "timestamp"
    /\ Invalidate(r, req[r].entityId, req[r].projectId,
                  [req EXCEPT ![r].pc = "readback"])
    /\ UNCHANGED <<textVars, dictionaryTable, dictionaryEntry, now, built, ver, completed>>

\* History: a mutation of key has responded with success.
Completed(q) == [completed EXCEPT ![KeyOf(q)] = Max(@, q.lastWrite)]

\* Lines 262-269: the translations are read back and the response is sent.
PostRespond(r) ==
    /\ req[r].kind = "post" /\ req[r].pc = "readback"
    /\ req' = [req EXCEPT ![r] = Done(@, 200)]
    /\ completed' = Completed(req[r])
    /\ UNCHANGED <<textVars, dictionaryTable, dictionaryEntry, projectCaches, now,
                   built, ver, inv, pendingInv>>

\* Lines 273-281: a dictionary row with a fresh id is inserted.
PostInsertDict(r) ==
    LET q == req[r]
        key == KeyOf(q)
    IN  /\ q.kind = "post" /\ q.pc = "insertDict"
        /\ \E d \in DictIds :
             /\ dictionaryTable[d] = NoScope
             /\ \A k \in 1..Len(dictionaryEntry) : dictionaryEntry[k].dictionary_id # d
             /\ \A x \in Slots : req[x].dictionaryId # d
             /\ dictionaryTable' = [dictionaryTable EXCEPT ![d] = key]
             /\ req' = [req EXCEPT ![r] =
                          Merge(q, [dictionaryId |-> d,
                                    wroteScopes |-> q.wroteScopes \cup {key},
                                    pc |-> IF Len(q.payload) > 0
                                           THEN "insertEntries" ELSE "created"])]
        /\ UNCHANGED <<textVars, dictionaryEntry, projectCaches, now, built, ver,
                       completed, inv, pendingInv>>

RECURSIVE InsertAll(_, _, _)
InsertAll(entries, d, payload) ==
    IF payload = <<>> THEN entries
    ELSE InsertAll(Append(entries, [dictionary_id |-> d,
                                    language_code |-> Head(payload).language_code,
                                    text |-> Head(payload).text]),
                   d, Tail(payload))

\* Lines 284-293: the batch insert of the entries.
PostInsertEntries(r) ==
    LET q == req[r]
        key == KeyOf(q)
    IN  /\ q.kind = "post" /\ q.pc = "insertEntries"
        /\ dictionaryEntry' = InsertAll(dictionaryEntry, q.dictionaryId, q.payload)
        /\ ver' = [ver EXCEPT ![key] = @ + 1]
        /\ req' = Disturb([req EXCEPT ![r] =
                             Merge(Wrote(q, key, ver[key] + 1), [pc |-> "created"])],
                          key)
        /\ UNCHANGED <<textVars, dictionaryTable, projectCaches, now, built, completed,
                       inv, pendingInv>>

\* Lines 295-304: invalidate and respond 201, with no await in between.
PostCreatedRespond(r) ==
    /\ req[r].kind = "post" /\ req[r].pc = "created"
    /\ Invalidate(r, req[r].entityId, req[r].projectId,
                  [req EXCEPT ![r] = Done(@, 201)])
    /\ completed' = Completed(req[r])
    /\ UNCHANGED <<textVars, dictionaryTable, dictionaryEntry, now, built, ver>>

\* Lines 314-335 of PUT: permission and project checks.
PutStart(r, entityId, projectId, auth, d, payload) ==
    /\ req[r].kind = "idle"
    /\ req' = [req EXCEPT ![r] =
                 LET q == Merge(Idle, [kind |-> "put", entityId |-> entityId,
                                       projectId |-> projectId])
                 IN  IF auth = "ok"
                     THEN Merge(q, [pc |-> "verify", payload |-> payload,
                                    dictionaryId |-> d])
                     ELSE Done(q, AuthStatus(auth))]
    /\ UNCHANGED <<textVars, dictionaryTable, dictionaryEntry, projectCaches, now,
                   built, ver, completed, inv, pendingInv>>

\* Lines 338-357: the dictionary must exist in this entity and project.
PutVerify(r) ==
    LET q == req[r]
    IN  /\ q.kind = "put" /\ q.pc = "verify"
        /\ req' = [req EXCEPT ![r] =
                     IF dictionaryTable[q.dictionaryId] = KeyOf(q)
                     THEN Merge(q, [i |-> 1,
                                    pc |-> IF Len(q.payload) > 0
                                           THEN "upsert" ELSE "timestamp"])
                     ELSE Done(q, 404)]
        /\ UNCHANGED <<textVars, dictionaryTable, dictionaryEntry, projectCaches, now,
                       built, ver, completed, inv, pendingInv>>

PutUpsert(r) ==
    /\ req[r].kind = "put" /\ req[r].pc = "upsert"
    /\ UpsertStep(r)
    /\ UNCHANGED <<textVars, dictionaryTable, projectCaches, now, built, completed, inv, pendingInv>>

\* Lines 381-389: the timestamp update has resolved; invalidate, then read back.
PutInvalidate(r) ==
    /\ req[r].kind = "put" /\ req[r].pc = "timestamp"
    /\ Invalidate(r, req[r].entityId, req[r].projectId,
                  [req EXCEPT ![r].pc = "readback"])
    /\ UNCHANGED <<textVars, dictionaryTable, dictionaryEntry, now, built, ver, completed>>

\* Lines 389-396.
PutRespond(r) ==
    /\ req[r].kind = "put" /\ req[r].pc = "readback"
    /\ req' = [req EXCEPT ![r] = Done(@, 200)]
    /\ completed' = Completed(req[r])
    /\ UNCHANGED <<textVars, dictionaryTable, dictionaryEntry, projectCaches, now,
                   built, ver, inv, pendingInv>>

\* Lines 405-428 of DELETE: permission and project checks, translations read.
DeleteStart(r, entityId, projectId, auth, d) ==
    /\ req[r].kind = "idle"
    /\ req' = [req EXCEPT ![r] =
                 LET q == Merge(Idle, [kind |-> "delete", entityId |-> entityId,
                                       projectId |-> projectId])
                 IN  IF auth = "ok"
                     THEN Merge(q, [pc |-> "deleting", dictionaryId |-> d])
                     ELSE Done(q, AuthStatus(auth))]
    /\ UNCHANGED <<textVars, dictionaryTable, dictionaryEntry, projectCaches, now,
                   built, ver, completed, inv, pendingInv>>

\* Lines 431-440: the database deletes the dictionary of this entity and
\* project, and its entries with it (cascade), or finds none.
DeleteExec(r) ==
    LET q == req[r]
        key == KeyOf(q)
    IN  /\ q.kind = "delete" /\ q.pc = "deleting"
        /\ IF dictionaryTable[q.dictionaryId] = key
           THEN /\ dictionaryTable' = [dictionaryTable EXCEPT ![q.dictionaryId] = NoScope]
                /\ dictionaryEntry' = SelectSeq(dictionaryEntry,
                                        LAMBDA e : e.dictionary_id # q.dictionaryId)
                /\ ver' = [ver EXCEPT ![key] = @ + 1]
                /\ req' = Disturb([req EXCEPT ![r] =
                                     Merge(Wrote(q, key, ver[key] + 1),
                                           [pc |-> "deleted"])], key)
           ELSE /\ req' = [req EXCEPT ![r].pc = "notdeleted"]
                /\ UNCHANGED <<dictionaryTable, dictionaryEntry, ver>>
        /\ UNCHANGED <<textVars, projectCaches, now, built, completed, inv, pendingInv>>

\* Lines 442-460 without line 453: the handler responds without invalidating.
DeleteRespondNoInvalidate(r) ==
    /\ req[r].kind = "delete"
    /\ \/ /\ req[r].pc = "notdeleted"
          /\ req' = [req EXCEPT ![r] = Done(@, 404)]
          /\ UNCHANGED completed
       \/ /\ req[r].pc = "deleted"
          /\ req' = [req EXCEPT ![r] = Done(@, 200)]
          /\ completed' = Completed(req[r])
    /\ UNCHANGED <<textVars, dictionaryTable, dictionaryEntry, projectCaches, now, built,
                   ver, inv, pendingInv>>

\* Lines 442-460: 404 when nothing was deleted, else invalidate and respond.
DeleteRespond(r) ==
    /\ req[r].kind = "delete"
    /\ \/ /\ req[r].pc = "notdeleted"
          /\ req' = [req EXCEPT ![r] = Done(@, 404)]
          /\ UNCHANGED <<projectCaches, inv, pendingInv, completed>>
       \/ /\ req[r].pc = "deleted"
          /\ Invalidate(r, req[r].entityId, req[r].projectId,
                        [req EXCEPT ![r] = Done(@, 200)])
          /\ completed' = Completed(req[r])
    /\ UNCHANGED <<textVars, dictionaryTable, dictionaryEntry, now, built, ver>>

\* A database call the request awaits rejects: the handler throws and
\* app.onError answers 500.
AwaitingDb ==
    {<<"get", "querying">>, <<"post", "lookup">>, <<"post", "upsert">>,
     <<"post", "timestamp">>, <<"post", "readback">>, <<"post", "insertDict">>,
     <<"post", "insertEntries">>, <<"put", "verify">>, <<"put", "upsert">>,
     <<"put", "timestamp">>, <<"put", "readback">>, <<"delete", "deleting">>}

\* app.onError with a handler that also drops the cache entry of a failed get.
DbFailDropEntry(r) ==
    /\ <<req[r].kind, req[r].pc>> \in AwaitingDb
    /\ req' = [req EXCEPT ![r] = Done(@, 500)]
    /\ projectCaches' = IF req[r].kind = "get"
                        THEN [projectCaches EXCEPT ![KeyOf(req[r])] = NoCache]
                        ELSE projectCaches
    /\ UNCHANGED <<textVars, dictionaryTable, dictionaryEntry, now,
                   built, ver, completed, inv, pendingInv>>

DbFail(r) ==
    /\ <<req[r].kind, req[r].pc>> \in AwaitingDb
    /\ req' = [req EXCEPT ![r] = Done(@, 500)]
    /\ UNCHANGED <<textVars, dictionaryTable, dictionaryEntry, projectCaches, now,
                   built, ver, completed, inv, pendingInv>>

\* Time passes.
Tick ==
    /\ now < MaxTime
    /\ now' = now + 1
    /\ UNCHANGED <<textVars, dictionaryTable, dictionaryEntry, projectCaches, req,
                   built, ver, completed, inv, pendingInv>>

ReaderNext ==
    \E r \in Readers :
        \/ \E e \in Entities, p \in Projects : GetStart(r, e, p)
        \/ GetQuery(r)
        \/ GetInstall(r)
        \/ DbFail(r)

WriterNext ==
    \E r \in Writers :
        \/ \E e \in Entities, p \in Projects, a \in AuthOutcomes, pl \in Payloads :
               PostStart(r, e, p, a, pl)
        \/ PostLookup(r)
        \/ PostUpsert(r)
        \/ PostInvalidate(r)
        \/ PostRespond(r)
        \/ PostInsertDict(r)
        \/ PostInsertEntries(r)
        \/ PostCreatedRespond(r)
        \/ \E e \in Entities, p \in Projects, a \in AuthOutcomes, d \in DictIds,
              pl \in Payloads : PutStart(r, e, p, a, d, pl)
        \/ PutVerify(r)
        \/ PutUpsert(r)
        \/ PutInvalidate(r)
        \/ PutRespond(r)
        \/ \E e \in Entities, p \in Projects, a \in AuthOutcomes, d \in DictIds :
               DeleteStart(r, e, p, a, d)
        \/ DeleteExec(r)
        \/ DeleteRespond(r)
        \/ DbFail(r)

\* Three translate requests and one DELETE.
ScopeReaderNext ==
    \E r \in ScopeReaders :
        \/ \E e \in Entities, p \in Projects : GetStart(r, e, p)
        \/ GetQuery(r)
        \/ GetInstall(r)

DeleteNext ==
    \E r \in Writers :
        \/ \E e \in Entities, p \in Projects, a \in AuthOutcomes, d \in DictIds :
               DeleteStart(r, e, p, a, d)
        \/ DeleteExec(r)
        \/ DeleteRespond(r)

\* No translate request is in the handler.
NoRequest == [pc |-> "off"]

\* No findDictionaryTerms call is being followed step by step.
NoScan == [pc |-> "off"]

TextIdle ==
    /\ t_rows = <<>> /\ t_text = <<>> /\ t_lang = "" /\ t_pc = "off"
    /\ t_cache = NoCache /\ t_matches = <<>> /\ t_wrapped = <<>>
    /\ t_translated = <<>> /\ t_result = <<>>
    /\ h = NoRequest /\ scan = NoScan

Init == ServerInit /\ TextIdle

Next == ReaderNext \/ WriterNext \/ Tick

Spec == Init /\ [][Next]_vars

NextScopes == ScopeReaderNext \/ DeleteNext

SpecScopes == Init /\ [][NextScopes]_vars

\* Three translate requests of one project, one DELETE and the clock.
HealReaderNext ==
    \E r \in ScopeReaders :
        \/ \E e \in Entities : GetStart(r, e, "p1")
        \/ GetQuery(r)
        \/ GetInstall(r)

NextHeal == HealReaderNext \/ DeleteNext \/ Tick

SpecHeal == Init /\ [][NextHeal]_vars

(***************************************************************************)
(* The dictionary path of one translate request, for one input string and  *)
(* one target language: load, match, wrap, external call, unwrap           *)
(***************************************************************************)

\* The code units of the input strings: a, A, space, U+0130.
Alphabet == {97, 65, 32, 304}

\* Longest input string.
MaxTextLen == 5

\* Most rows in the dictionary of the request's project.
MaxRows == 2

\* The rows the dictionary may hold: "a" and "A a" in one group, "A" and
\* " a" in another.
RowPool ==
    { [dictionary_id |-> "d1", language_code |-> "en", text |-> <<97>>],
      [dictionary_id |-> "d1", language_code |-> "es", text |-> <<65, 32, 97>>],
      [dictionary_id |-> "d2", language_code |-> "en", text |-> <<65>>],
      [dictionary_id |-> "d2", language_code |-> "es", text |-> <<32, 97>>] }

Texts == UNION {[1..n -> Alphabet] : n \in 0..MaxTextLen}

\* Query results: rows in any order, one per dictionary and language
\* (whisperly_unique_lang_per_dict).
RowSeqs ==
    {rs \in UNION {[1..n -> RowPool] : n \in 0..MaxRows} :
        \A i, j \in 1..Len(rs) :
            (i # j) => (rs[i].dictionary_id # rs[j].dictionary_id
                        \/ rs[i].language_code # rs[j].language_code)}

TextInit ==
    /\ t_rows \in RowSeqs /\ t_text \in Texts /\ t_lang = "" /\ t_pc = "start"
    /\ t_cache = NoCache /\ t_matches = <<>> /\ t_wrapped = <<>>
    /\ t_translated = <<>> /\ t_result = <<>>
    /\ h = NoRequest /\ scan = NoScan

\* translate.ts line 627: the cache of the project, built by loadProjectCache
\* from the rows of the query.
T_Load ==
    /\ t_pc = "start"
    /\ t_cache' = BuildCache(t_rows, now, 1)
    /\ t_pc' = "loaded"
    /\ UNCHANGED <<serverVars, h, scan, t_rows, t_text, t_lang, t_matches, t_wrapped,
                   t_translated, t_result>>

\* translate.ts line 632.
T_Find ==
    /\ t_pc = "loaded"
    /\ t_matches' = findDictionaryTerms(t_text, t_cache)
    /\ t_pc' = "found"
    /\ UNCHANGED <<serverVars, h, scan, t_rows, t_text, t_lang, t_cache, t_wrapped,
                   t_translated, t_result>>

\* translate.ts line 635.
T_Wrap ==
    /\ t_pc = "found"
    /\ t_wrapped' = wrapTermsWithBrackets(t_text, t_matches)
    /\ t_pc' = "wrapped"
    /\ UNCHANGED <<serverVars, h, scan, t_rows, t_text, t_lang, t_cache, t_matches,
                   t_translated, t_result>>

\* translate.ts line 659: the external service, here one that returns the
\* string it was given.
T_Translate ==
    /\ t_pc = "wrapped"
    /\ t_translated' = t_wrapped
    /\ t_pc' = "translated"
    /\ UNCHANGED <<serverVars, h, scan, t_rows, t_text, t_lang, t_cache, t_matches,
                   t_wrapped, t_result>>

\* translate.ts line 735, for one target language.
T_Unwrap(targetLanguage) ==
    /\ t_pc = "translated"
    /\ t_result' = unwrapAndTranslate(t_translated, t_matches, targetLanguage, t_cache)
    /\ t_lang' = targetLanguage
    /\ t_pc' = "done"
    /\ UNCHANGED <<serverVars, h, scan, t_rows, t_text, t_cache, t_matches, t_wrapped,
                   t_translated>>

InitText == ServerInit /\ TextInit

NextText ==
    \/ T_Load
    \/ T_Find
    \/ T_Wrap
    \/ T_Translate
    \/ \E l \in Langs : T_Unwrap(l)

SpecText == InitText /\ [][NextText]_vars

(***************************************************************************)
(* The same path with an external service that does not return the string  *)
(* it was given                                                            *)
(***************************************************************************)

\* Longest input string sent to a service that alters it.
MaxServiceTextLen == 3

ServiceTexts == UNION {[1..n -> Alphabet] : n \in 0..MaxServiceTextLen}

\* What the service may do to the markers of the string it is given.
Alterations == {"strip", "drop", "inner", "upper", "twice"}

\* The string without its braces.
RECURSIVE StripBraces(_)
StripBraces(s) ==
    IF s = <<>> THEN <<>>
    ELSE (IF Head(s) \in {123, 125} THEN <<>> ELSE <<Head(s)>>) \o StripBraces(Tail(s))

\* The string with its ASCII letters in upper case.
UpperAscii(s) == [i \in 1..Len(s) |-> IF s[i] >= 97 /\ s[i] <= 122 THEN s[i] - 32 ELSE s[i]]

\* The text from offset from on, with every span of matches (in order of
\* start) replaced by with.
RECURSIVE SpansReplacedBy(_, _, _, _)
SpansReplacedBy(text, matches, from, with) ==
    IF matches = <<>> THEN Slice(text, from, Len(text))
    ELSE Slice(text, from, Head(matches).start) \o with
           \o SpansReplacedBy(text, Tail(matches), Head(matches).end, with)

\* The service's answer: the markers without their braces, the markers
\* dropped with their content, the content of the markers translated (to
\* "x"), the whole string in upper case, the string twice.
Altered(kind) ==
    CASE kind = "strip" -> StripBraces(t_wrapped)
      [] kind = "drop"  -> SpansReplacedBy(t_text, t_matches, 0, <<>>)
      [] kind = "inner" -> SpansReplacedBy(t_text, t_matches, 0, Bracketed(<<120>>))
      [] kind = "upper" -> UpperAscii(t_wrapped)
      [] kind = "twice" -> t_wrapped \o t_wrapped

\* translate.ts line 659 with a service that alters the string.
T_Alter(kind) ==
    /\ t_pc = "wrapped"
    /\ t_translated' = Altered(kind)
    /\ t_pc' = "translated"
    /\ UNCHANGED <<serverVars, h, scan, t_rows, t_text, t_lang, t_cache, t_matches,
                   t_wrapped, t_result>>

ServiceInit ==
    /\ t_rows \in RowSeqs /\ t_text \in ServiceTexts /\ t_lang = "" /\ t_pc = "start"
    /\ t_cache = NoCache /\ t_matches = <<>> /\ t_wrapped = <<>>
    /\ t_translated = <<>> /\ t_result = <<>>
    /\ h = NoRequest /\ scan = NoScan

InitService == ServerInit /\ ServiceInit

NextService ==
    \/ T_Load
    \/ T_Find
    \/ T_Wrap
    \/ T_Translate
    \/ \E kind \in Alterations : T_Alter(kind)
    \/ \E l \in Langs : T_Unwrap(l)

SpecService == InitService /\ [][NextService]_vars

(***************************************************************************)
(* Loading and matching over letters whose upper case coincides while      *)
(* their lower case does not                                               *)
(***************************************************************************)

\* a, A, U+00B5 (micro sign), U+03BC (Greek small mu).
CaseAlphabet == {97, 65, 181, 956}

\* Longest input string over CaseAlphabet.
MaxCaseTextLen == 3

CaseTexts == UNION {[1..n -> CaseAlphabet] : n \in 0..MaxCaseTextLen}

\* "a(micro)a" and Greek "mu" in one group, "a" and "A(micro)" in another.
CaseRowPool ==
    { [dictionary_id |-> "d1", language_code |-> "en", text |-> <<97, 181, 97>>],
      [dictionary_id |-> "d1", language_code |-> "es", text |-> <<956>>],
      [dictionary_id |-> "d2", language_code |-> "en", text |-> <<97>>],
      [dictionary_id |-> "d2", language_code |-> "es", text |-> <<65, 181>>] }

\* Most rows in a dictionary over CaseRowPool.
MaxCaseRows == 3

CaseRowSeqs ==
    {rs \in UNION {[1..n -> CaseRowPool] : n \in 0..MaxCaseRows} :
        \A i, j \in 1..Len(rs) :
            (i # j) => (rs[i].dictionary_id # rs[j].dictionary_id
                        \/ rs[i].language_code # rs[j].language_code)}

CaseInit ==
    /\ t_rows \in CaseRowSeqs /\ t_text \in CaseTexts /\ t_lang = "" /\ t_pc = "start"
    /\ t_cache = NoCache /\ t_matches = <<>> /\ t_wrapped = <<>>
    /\ t_translated = <<>> /\ t_result = <<>>
    /\ h = NoRequest /\ scan = NoScan

InitCase == ServerInit /\ CaseInit

NextCase == T_Load \/ T_Find

SpecCase == InitCase /\ [][NextCase]_vars

(***************************************************************************)
(* Loading and matching with terms that can occur at overlapping places    *)
(***************************************************************************)

\* a, space, U+00B5 (micro sign, not a word character of the pattern).
ScanAlphabet == {97, 32, 181}

\* Longest input string over ScanAlphabet.
MaxScanTextLen == 7

ScanTexts == UNION {[1..n -> ScanAlphabet] : n \in 0..MaxScanTextLen}

\* " a(micro)" and "a(micro)a" in one group, "a" in another.
ScanRowPool ==
    { [dictionary_id |-> "d1", language_code |-> "en", text |-> <<32, 97, 181>>],
      [dictionary_id |-> "d1", language_code |-> "es", text |-> <<97, 181, 97>>],
      [dictionary_id |-> "d2", language_code |-> "en", text |-> <<97>>] }

\* Most rows in a dictionary over ScanRowPool.
MaxScanRows == 2

ScanRowSeqs ==
    {rs \in UNION {[1..n -> ScanRowPool] : n \in 0..MaxScanRows} :
        \A i, j \in 1..Len(rs) :
            (i # j) => (rs[i].dictionary_id # rs[j].dictionary_id
                        \/ rs[i].language_code # rs[j].language_code)}

ScanInit ==
    /\ t_rows \in ScanRowSeqs /\ t_text \in ScanTexts /\ t_lang = "" /\ t_pc = "start"
    /\ t_cache = NoCache /\ t_matches = <<>> /\ t_wrapped = <<>>
    /\ t_translated = <<>> /\ t_result = <<>>
    /\ h = NoRequest /\ scan = NoScan

InitScan == ServerInit /\ ScanInit

NextScan == T_Load \/ T_Find

SpecScan == InitScan /\ [][NextScan]_vars

(***************************************************************************)
(* findDictionaryTerms followed one loop iteration at a time, with a       *)
(* dictionary that may hold a row with an empty text                       *)
(***************************************************************************)

\* Longest input string of a call that is followed step by step.
MaxLoopTextLen == 3

\* The list of matches is followed up to this many entries.  Matches of
\* terms that are not empty are disjoint and not empty, so a call whose
\* loops end records at most MaxLoopTextLen of them.
MaxLoopMatches == 4

\* Most rows in the dictionary of such a call.
MaxLoopRows == 2

LoopAlphabet == {97, 32}

LoopTexts == UNION {[1..n -> LoopAlphabet] : n \in 0..MaxLoopTextLen}

\* "" and "a" in one group, "a a" in another.
LoopRowPool ==
    { [dictionary_id |-> "d1", language_code |-> "en", text |-> <<>>],
      [dictionary_id |-> "d1", language_code |-> "es", text |-> <<97>>],
      [dictionary_id |-> "d2", language_code |-> "en", text |-> <<97, 32, 97>>] }

LoopRowSeqs ==
    {rs \in UNION {[1..n -> LoopRowPool] : n \in 0..MaxLoopRows} :
        \A i, j \in 1..Len(rs) :
            (i # j) => (rs[i].dictionary_id # rs[j].dictionary_id
                        \/ rs[i].language_code # rs[j].language_code)}

\* Lines 178-179: findDictionaryTerms is entered.
NewScan(text, cache) ==
    [pc |-> "term", text |-> text, cache |-> cache, k |-> 1, atoms |-> <<>>,
     lastIndex |-> 0, start |-> 0, matches |-> <<>>, usedRanges |-> <<>>,
     result |-> <<>>]

\* Lines 187-191: the for loop takes the next term and builds its RegExp,
\* or, after the last term, line 216 sorts the matches and returns.
L_Term ==
    /\ scan.pc = "term"
    /\ scan' = IF scan.k > Len(scan.cache.terms_sorted)
               THEN [scan EXCEPT !.result = SortByStart(scan.matches, <<>>),
                                 !.pc = "done"]
               ELSE [scan EXCEPT
                       !.atoms = PatternAtoms(escapeRegex(scan.cache.terms_sorted[scan.k])),
                       !.lastIndex = 0,
                       !.pc = "exec"]
    /\ UNCHANGED <<serverVars, pathVars, h>>

\* Line 194: regex.exec(text).  A match (its index is kept in start) enters
\* the body of the while loop; exec leaves lastIndex at the end of the
\* match.  null leaves the while loop.
L_Exec ==
    LET start == RegexExec(scan.text, scan.atoms, scan.lastIndex)
    IN  /\ scan.pc = "exec"
        /\ scan' = IF start = -1
                   THEN [scan EXCEPT !.pc = "term", !.k = @ + 1]
                   ELSE [scan EXCEPT !.start = start,
                                     !.lastIndex = start + Len(scan.atoms),
                                     !.pc = "body"]
        /\ UNCHANGED <<serverVars, pathVars, h>>

\* Lines 195-211: the body of the while loop for the match at start.
L_Body ==
    LET start == scan.start
        end   == start + Len(scan.atoms)
        termLower == scan.cache.terms_sorted[scan.k]
    IN  /\ scan.pc = "body"
        /\ scan' =
             IF overlaps(scan.usedRanges, start, end)
                \/ Len(scan.matches) >= MaxLoopMatches
             THEN [scan EXCEPT !.pc = "exec"]
             ELSE [scan EXCEPT
                     !.matches = Append(@, [term |-> Slice(scan.text, start, end),
                                            start |-> start,
                                            end |-> end,
                                            dictionaryId |->
                                              MapGet(scan.cache.text_map, termLower)]),
                     !.usedRanges = Append(@, [start |-> start, end |-> end]),
                     !.pc = "exec"]
        /\ UNCHANGED <<serverVars, pathVars, h>>

InitLoop ==
    /\ ServerInit
    /\ t_rows = <<>> /\ t_text = <<>> /\ t_lang = "" /\ t_pc = "off"
    /\ t_cache = NoCache /\ t_matches = <<>> /\ t_wrapped = <<>>
    /\ t_translated = <<>> /\ t_result = <<>>
    /\ h = NoRequest
    /\ \E text \in LoopTexts, rows \in LoopRowSeqs :
          scan = NewScan(text, BuildCache(rows, 0, 1))

NextLoop == L_Term \/ L_Exec \/ L_Body

\* The loops are synchronous code: an iteration that can run does run.
SpecLoop == InitLoop /\ [][NextLoop]_vars /\ WF_vars(NextLoop)

(***************************************************************************)
(* The translate handler (translateRouter.post) from line 619 on, next to  *)
(* a dictionary request and the clock                                      *)
(***************************************************************************)

\* The slot of req that carries the handler's getProjectCache calls.
TrSlot == "r1"

\* The bodies the handler is run with: body.strings.
RequestStrings ==
    { << <<65>> >>,
      << <<97, 97>> >>,
      << <<97>>, <<97>> >>,
      << <<32>>, <<97, 32, 65>> >> }

\* What the external service answers for one string: the string itself or
\* the string in upper case.
ServiceKinds == {"echo", "upper"}

ServiceAnswer(kind, text) == IF kind = "upper" THEN UpperAscii(text) ELSE text

\* The handler at line 619 with its body, before it has started.
NewRequest(strings, skipDictionaries, targetLanguage, testMode) ==
    [pc |-> "idle", skip |-> skipDictionaries, testMode |-> testMode,
     debug |-> <<>>, strings |-> strings,
     lang |-> targetLanguage, cache |-> NoCache,
     matches |-> [i \in DOMAIN strings |-> <<>>],
     processed |-> strings, dictionaryTerms |-> <<>>, foundTerms |-> <<>>,
     called |-> FALSE, sent |-> <<>>, service |-> <<>>, cache2 |-> NoCache,
     translations |-> <<>>, status |-> 0]

HandlerIdle == NewRequest(<<>>, FALSE, "", FALSE)

\* termMatchesByIndex.size > 0
HasMatches(q) == \E i \in DOMAIN q.matches : q.matches[i] # <<>>

\* The terms of the matches, each once, in the order of lines 641-647.
RECURSIVE UniqueTerms(_, _)
UniqueTerms(ms, acc) ==
    IF ms = <<>> THEN acc ELSE UniqueTerms(Tail(ms), SetAdd(acc, Head(ms).term))

RECURSIVE FoundTerms(_, _)
FoundTerms(matchLists, acc) ==
    IF matchLists = <<>> THEN acc
    ELSE FoundTerms(Tail(matchLists), UniqueTerms(Head(matchLists), acc))

\* [...new Set(entries.map(e => e.text))]
RECURSIVE UniqueTexts(_, _)
UniqueTexts(entries, acc) ==
    IF entries = <<>> THEN acc
    ELSE UniqueTexts(Tail(entries), SetAdd(acc, Head(entries).text))

\* The same step for a handler that takes the dictionary branch whatever
\* skip_dictionaries says.
TrStartIgnoreSkip(strings, skipDictionaries, targetLanguage, testMode) ==
    /\ h.pc = "idle"
    /\ h' = [NewRequest(strings, skipDictionaries, targetLanguage, testMode)
               EXCEPT !.pc = "get1"]
    /\ UNCHANGED <<serverVars, pathVars, scan>>

\* Lines 561 and 619-625: a request arrives with its body and its test-mode
\* flag and takes one of the two branches.
TrStart(strings, skipDictionaries, targetLanguage, testMode) ==
    /\ h.pc = "idle"
    /\ h' = [NewRequest(strings, skipDictionaries, targetLanguage, testMode)
               EXCEPT !.pc = IF skipDictionaries THEN "terms" ELSE "get1"]
    /\ UNCHANGED <<serverVars, pathVars, scan>>

\* Lines 627, 724 and 742: the handler calls getProjectCache.
TrGetStart ==
    /\ h.pc \in {"get1", "get2", "get3"}
    /\ GetStart(TrSlot, "e1", "p1")

\* Lines 629-633: getProjectCache has returned; every string is matched
\* against the cache unless the cache is empty.
TrFind ==
    LET cache == req[TrSlot].result
    IN  /\ h.pc = "get1" /\ Returned(req[TrSlot])
        /\ h' = [h EXCEPT
                   !.cache = cache,
                   !.matches = IF isCacheEmpty(cache) THEN @
                               ELSE [i \in DOMAIN h.strings |->
                                       findDictionaryTerms(h.strings[i], cache)],
                   !.pc = "wrap"]
        /\ req' = [req EXCEPT ![TrSlot] = Idle]
        /\ UNCHANGED <<pathVars, scan, dictionaryTable, dictionaryEntry, projectCaches,
                       now, built, ver, completed, inv, pendingInv>>

\* The same step with a wrapTermsWithBrackets that sorts the list it is
\* given instead of a copy of it.
TrWrapInPlace ==
    LET processedStrings ==
            IF isCacheEmpty(h.cache) THEN h.strings
            ELSE [i \in DOMAIN h.strings |->
                    IF Len(h.matches[i]) > 0
                    THEN wrapTermsWithBrackets(h.strings[i], h.matches[i])
                    ELSE h.strings[i]]
    IN  /\ h.pc = "wrap"
        /\ h' = [h EXCEPT !.processed = processedStrings,
                          !.matches = [i \in DOMAIN h.matches |->
                                         SortByStartDesc(h.matches[i], <<>>)],
                          !.foundTerms = FoundTerms(h.matches, <<>>),
                          !.called = TRUE, !.sent = processedStrings,
                          !.pc = "translating"]
        /\ UNCHANGED <<serverVars, pathVars, scan>>

\* Lines 633-648 and 659-662: the strings with matches are wrapped, the
\* found terms are collected and translateStrings is called.
TrWrap ==
    LET processedStrings ==
            IF isCacheEmpty(h.cache) THEN h.strings
            ELSE [i \in DOMAIN h.strings |->
                    IF Len(h.matches[i]) > 0
                    THEN wrapTermsWithBrackets(h.strings[i], h.matches[i])
                    ELSE h.strings[i]]
    IN  /\ h.pc = "wrap"
        /\ h' = [h EXCEPT !.processed = processedStrings,
                          !.foundTerms = FoundTerms(h.matches, <<>>),
                          !.called = TRUE, !.sent = processedStrings,
                          !.pc = "translating"]
        /\ UNCHANGED <<serverVars, pathVars, scan>>

\* Lines 651-654: the database answers the query of
\* getDictionaryTermsForProject.
TrTermsQuery ==
    /\ h.pc = "terms"
    /\ h' = [h EXCEPT !.dictionaryTerms = UniqueTexts(ScopeRows("e1", "p1"), <<>>),
                      !.pc = "extract"]
    /\ UNCHANGED <<serverVars, pathVars, scan>>

\* Lines 655 and 659-662.
TrExtract ==
    /\ h.pc = "extract"
    /\ h' = [h EXCEPT !.foundTerms = extractDictionaryTerms(h.strings, h.dictionaryTerms),
                      !.called = TRUE, !.sent = h.processed,
                      !.pc = "translating"]
    /\ UNCHANGED <<serverVars, pathVars, scan>>

\* Lines 659-723, 740 and 746-757: the service has answered; the handler
\* goes on to a getProjectCache call, for the unwrap phase or (in test mode)
\* for the debug output, or responds with the service's results.
TrService(kind) ==
    LET results == [i \in DOMAIN h.sent |-> ServiceAnswer(kind, h.sent[i])]
    IN  /\ h.pc = "translating"
        /\ h' = IF ~h.skip /\ HasMatches(h)
                THEN [h EXCEPT !.service = results, !.pc = "get2"]
                ELSE IF ~h.skip /\ h.testMode
                THEN [h EXCEPT !.service = results, !.translations = results,
                               !.pc = "get3"]
                ELSE [h EXCEPT !.service = results, !.translations = results,
                               !.pc = "done", !.status = 200]
        /\ UNCHANGED <<serverVars, pathVars, scan>>

\* Lines 665-694: the service call has failed.
TrServiceFail ==
    /\ h.pc = "translating"
    /\ h' = [h EXCEPT !.pc = "done", !.status = 500]
    /\ UNCHANGED <<serverVars, pathVars, scan>>

\* Lines 724-757: the second getProjectCache call has returned; the
\* translations of the strings with matches are unwrapped.
TrUnwrap ==
    LET cache == req[TrSlot].result
    IN  /\ h.pc = "get2" /\ Returned(req[TrSlot])
        /\ h' = [h EXCEPT
                   !.cache2 = cache,
                   !.debug = IF h.testMode THEN serializeCache(cache) ELSE @,
                   !.translations =
                       [i \in DOMAIN h.service |->
                          IF Len(h.matches[i]) > 0
                          THEN unwrapAndTranslate(h.service[i], h.matches[i], h.lang, cache)
                          ELSE h.service[i]],
                   !.pc = "done", !.status = 200]
        /\ req' = [req EXCEPT ![TrSlot] = Idle]
        /\ UNCHANGED <<pathVars, scan, dictionaryTable, dictionaryEntry, projectCaches,
                       now, built, ver, completed, inv, pendingInv>>

\* Lines 740-757: the getProjectCache call for the debug output has
\* returned.
TrDebug ==
    /\ h.pc = "get3" /\ Returned(req[TrSlot])
    /\ h' = [h EXCEPT !.debug = serializeCache(req[TrSlot].result),
                      !.pc = "done", !.status = 200]
    /\ req' = [req EXCEPT ![TrSlot] = Idle]
    /\ UNCHANGED <<pathVars, scan, dictionaryTable, dictionaryEntry, projectCaches,
                   now, built, ver, completed, inv, pendingInv>>

\* A getProjectCache call of the handler, or its query for the terms, has
\* thrown: app.onError answers 500.
TrFail ==
    /\ \/ h.pc \in {"get1", "get2", "get3"} /\ Failed(req[TrSlot])
       \/ h.pc = "terms"
    /\ h' = [h EXCEPT !.pc = "done", !.status = 500]
    /\ req' = [req EXCEPT ![TrSlot] = Idle]
    /\ UNCHANGED <<pathVars, scan, dictionaryTable, dictionaryEntry, projectCaches,
                   now, built, ver, completed, inv, pendingInv>>

TranslateNext ==
    \/ \E strings \in RequestStrings, skip \in BOOLEAN, l \in Langs, tm \in BOOLEAN :
           TrStart(strings, skip, l, tm)
    \/ TrGetStart
    \/ GetQuery(TrSlot)
    \/ GetInstall(TrSlot)
    \/ DbFail(TrSlot)
    \/ TrFind
    \/ TrWrap
    \/ TrTermsQuery
    \/ TrExtract
    \/ \E kind \in ServiceKinds : TrService(kind)
    \/ TrServiceFail
    \/ TrUnwrap
    \/ TrDebug
    \/ TrFail

InitTranslate ==
    /\ ServerInit
    /\ t_rows = <<>> /\ t_text = <<>> /\ t_lang = "" /\ t_pc = "off"
    /\ t_cache = NoCache /\ t_matches = <<>> /\ t_wrapped = <<>>
    /\ t_translated = <<>> /\ t_result = <<>>
    /\ h = HandlerIdle /\ scan = NoScan

NextTranslate == TranslateNext \/ WriterNext \/ Tick

SpecTranslate == InitTranslate /\ [][NextTranslate]_vars

(***************************************************************************)
(* extractDictionaryTerms on its own: the handler at line 655 with any     *)
(* strings and any list of terms                                           *)
(***************************************************************************)

\* Longest string given to extractDictionaryTerms.
MaxExtractLen == 2

\* Most strings, and most terms, given to extractDictionaryTerms.
MaxExtractItems == 2

ExtractAlphabet == {97, 65, 32}

ExtractTexts == UNION {[1..n -> ExtractAlphabet] : n \in 0..MaxExtractLen}

ExtractStrings == UNION {[1..n -> ExtractTexts] : n \in 0..MaxExtractItems}

\* The terms of the dictionary: "a", "A", "a a", "Aa".
ExtractTermPool == { <<97>>, <<65>>, <<97, 32, 97>>, <<65, 97>> }

ExtractTermLists == UNION {[1..n -> ExtractTermPool] : n \in 0..MaxExtractItems}

InitExtract ==
    /\ ServerInit
    /\ t_rows = <<>> /\ t_text = <<>> /\ t_lang = "" /\ t_pc = "off"
    /\ t_cache = NoCache /\ t_matches = <<>> /\ t_wrapped = <<>>
    /\ t_translated = <<>> /\ t_result = <<>>
    /\ scan = NoScan
    /\ \E strings \in ExtractStrings, terms \in ExtractTermLists :
          h = [NewRequest(strings, TRUE, "en", FALSE)
                 EXCEPT !.pc = "extract", !.dictionaryTerms = terms]

NextExtract == TrExtract

SpecExtract == InitExtract /\ [][NextExtract]_vars

(***************************************************************************)
(* Properties of the cache and of the mutation handlers (under Spec)       *)
(***************************************************************************)

\* A mutation handler that has responded.
Responded(q) == q.kind \in {"post", "put", "delete"} /\ q.pc = "done"

\* The maps and the term list of two caches are the same.
SameContent(c1, c2) ==
    /\ c1.dictionary_map = c2.dictionary_map
    /\ c1.text_map = c2.text_map
    /\ c1.terms_sorted = c2.terms_sorted

\* C2: after invalidateProjectCache(scope), the next getProjectCache(scope) to
\* return has queried the store after that invalidation and returns the
\* cache it built from that query, in every interleaving.
C2_NextGetAfterInvalidateRequeries ==
    \A r \in Readers :
        (Returned(req[r]) /\ req[r].afterInval) =>
            /\ req[r].queried
            /\ req[r].installed
            /\ req[r].readInv = req[r].retInv

\* C3: a getProjectCache call issued after a successful dictionary mutation
\* of its scope has responded returns a cache built from rows that include
\* that mutation's writes.
C3_ReadAfterWriteFresh ==
    \A r \in Readers :
        Returned(req[r]) => built[req[r].result.instance] >= req[r].mustSee

\* Two getProjectCache calls of one scope that were in flight at the same
\* time, with no row change and no invalidation of the scope during either.
ConcurrentUndisturbed(r, q) ==
    /\ r # q
    /\ Returned(req[r]) /\ Returned(req[q])
    /\ KeyOf(req[r]) = KeyOf(req[q])
    /\ q \in req[r].overlap /\ r \in req[q].overlap
    /\ ~req[r].disturbed /\ ~req[q].disturbed

\* C4 as claimed: concurrent calls of one scope, with no mutation or
\* invalidation in between, all return the same cache instance.
C4_ConcurrentGetsSameInstance ==
    \A r, q \in Readers :
        ConcurrentUndisturbed(r, q) => req[r].result.instance = req[q].result.instance

\* C4 as amended: such calls each build and return an instance of their own,
\* and the instances have the same dictionary_map, text_map and terms_sorted.
C4_ConcurrentGetsSameContent ==
    \A r, q \in Readers :
        ConcurrentUndisturbed(r, q) =>
            /\ SameContent(req[r].result, req[q].result)
            /\ req[r].installed /\ req[q].installed
            /\ req[r].result.instance # req[q].result.instance

\* Two calls found the scope cold at the same time and both have returned.
C4_Witness ==
    /\ ConcurrentUndisturbed("r1", "r2")
    /\ req["r1"].result.terms_sorted # <<>>
    /\ projectCaches[KeyOf(req["r1"])] \in {req["r1"].result, req["r2"].result}

\* C5: with an entry loaded at T in the cache, a getProjectCache at time t
\* queries the store and replaces the entry if and only if t - T > TTL;
\* otherwise it reads nothing and returns the cached instance itself.
C5_TtlExpiry ==
    \A r \in Readers :
        (req[r].kind = "get" /\ req[r].existing # NoCache) =>
            LET q == req[r]
                old == q.startTime - q.existing.loaded_at > CACHE_TTL_MS
            IN  /\ q.pc \in {"querying", "loaded"} => old
                /\ (q.pc = "done" /\ q.status = 500) => old
                /\ Returned(q) =>
                     IF old
                     THEN /\ q.queried /\ q.installed
                          /\ q.result.instance # q.existing.instance
                          /\ q.result.loaded_at > q.existing.loaded_at
                     ELSE ~q.queried /\ ~q.installed /\ q.result = q.existing

\* A call found an entry just older than TTL, queried the store and put a
\* new instance in the entry's place.
C5_Witness ==
    \E r \in Readers :
        /\ Returned(req[r]) /\ req[r].existing # NoCache
        /\ req[r].startTime - req[r].existing.loaded_at = CACHE_TTL_MS + 1
        /\ req[r].installed
        /\ projectCaches[KeyOf(req[r])] = req[r].result

\* C6: a mutation handler that responds with success has invalidated exactly
\* the scope whose rows it changed, once, after its last write; a handler
\* that responds 403 or 404 without having written has not invalidated.
C6_MutationInvalidatesOwnScope ==
    \A w \in Writers :
        Responded(req[w]) =>
            LET q == req[w]
            IN  /\ q.status \in {200, 201} =>
                     /\ q.invalidated = <<KeyOf(q)>>
                     /\ q.wroteScopes \subseteq {KeyOf(q)}
                     /\ ~q.wroteAfterInval
                     /\ q.lastWrite <= completed[KeyOf(q)]
                /\ (q.status \in {403, 404} /\ q.wroteScopes = {}) =>
                     q.invalidated = <<>>

\* A DELETE has removed a dictionary and responded, and its scope's cache,
\* filled before, is empty again.
C6_Witness ==
    \E w \in Writers :
        /\ Responded(req[w]) /\ req[w].kind = "delete" /\ req[w].status = 200
        /\ req[w].wroteScopes # {}
        /\ \E r \in Readers : Returned(req[r]) /\ KeyOf(req[r]) = KeyOf(req[w])
        /\ projectCaches[KeyOf(req[w])] = NoCache

\* C13: a getProjectCache call whose store read fails ends with the error
\* and returns no index, and no step of a call that has not returned an index
\* changes the cache map, for any scope.
C13_StoreFailureLeavesCache ==
    [][\A r \in Readers :
         (req'[r].kind = "get" /\ req'[r].pc # req[r].pc) =>
            /\ ~Returned(req'[r]) =>
                 (projectCaches' = projectCaches /\ req'[r].result = NoCache)
            /\ (req[r].pc = "querying" /\ req'[r].pc = "done") => Failed(req'[r])]_vars

\* A call found an expired entry, its store read failed, and the expired
\* entry is still in the map.
C13_Witness ==
    \E r \in Readers :
        /\ Failed(req[r])
        /\ req[r].existing # NoCache
        /\ projectCaches[KeyOf(req[r])] = req[r].existing
        /\ req[r].result = NoCache

\* Request r takes a step of a getProjectCache call.
GetStep(r) == req'[r].kind = "get" /\ req'[r].pc # req[r].pc

\* C14: a getProjectCache call, its build and invalidateProjectCache change
\* the cache entry of their own scope only, a call that finds a valid entry
\* returns it at once whatever is in flight, and two scopes never hold the
\* same cache instance.
C14_ScopeIndependence ==
    [][/\ \A r \in ScopeReaders :
            GetStep(r) =>
                \A k \in Scopes \ {KeyOf(req'[r])} : projectCaches'[k] = projectCaches[k]
       /\ \A k \in Scopes :
            (inv'[k] # inv[k]) =>
                \A k2 \in Scopes \ {k} : projectCaches'[k2] = projectCaches[k2]
       /\ \A r \in ScopeReaders :
            (/\ GetStep(r) /\ req[r].kind = "idle"
             /\ projectCaches[KeyOf(req'[r])] # NoCache
             /\ ~isCacheExpired(projectCaches[KeyOf(req'[r])], now))
                => (Returned(req'[r]) /\ req'[r].result = projectCaches[KeyOf(req'[r])])
       /\ \A k, k2 \in Scopes :
            (k # k2 /\ projectCaches'[k] # NoCache /\ projectCaches'[k2] # NoCache)
                => projectCaches'[k].instance # projectCaches'[k2].instance]_vars

\* A build of one scope is in flight after an invalidation of that scope,
\* while the entry another call installed for a second scope is in the map
\* and a third call has returned it on a hit.
C14_Witness ==
    \E x, y, z \in ScopeReaders :
        /\ req[x].kind = "get" /\ req[x].pc = "loaded"
        /\ inv[KeyOf(req[x])] >= 1
        /\ projectCaches[KeyOf(req[x])] = NoCache
        /\ Returned(req[z]) /\ req[z].installed /\ KeyOf(req[z]) # KeyOf(req[x])
        /\ projectCaches[KeyOf(req[z])] = req[z].result
        /\ Returned(req[y]) /\ ~req[y].queried /\ req[y].result = req[z].result


(***************************************************************************)
(* Properties of matching, wrapping and unwrapping (under SpecText)        *)
(***************************************************************************)

\* findDictionaryTerms has returned.
Matched == t_pc = "found"

TermAtoms(term) == PatternAtoms(escapeRegex(term))

\* The whole-word occurrences of an index term in a text, as ranges.
Occurrences(text, term) ==
    {[start |-> i, end |-> i + Len(term)] :
        i \in {j \in 0..Len(text) : MatchesAt(text, TermAtoms(term), j)}}

Intersect(a, b) == a.start < b.end /\ b.start < a.end

Inside(a, b) == b.start <= a.start /\ a.end <= b.end

IndexTerms(cache) == {cache.terms_sorted[i] : i \in 1..Len(cache.terms_sorted)}

RangeOf(m) == [start |-> m.start, end |-> m.end]

\* C1: the matches findDictionaryTerms returns are in order and do not
\* overlap: each match ends at or before the start of the next one.
C1_OrderedNonOverlapping ==
    Matched =>
        \A i \in 1..(Len(t_matches) - 1) : t_matches[i].end <= t_matches[i + 1].start

\* Two matches of different groups were returned and an occurrence of an
\* index term that intersects a returned match was left out.
C1_Witness ==
    /\ t_pc = "found"
    /\ Len(t_matches) >= 2
    /\ t_matches[1].dictionaryId # t_matches[2].dictionaryId
    /\ \E term \in IndexTerms(t_cache) :
         \E o \in Occurrences(t_text, term) :
            /\ \A i \in 1..Len(t_matches) : RangeOf(t_matches[i]) # o
            /\ \E i \in 1..Len(t_matches) : Intersect(RangeOf(t_matches[i]), o)

\* C7: every returned match is bounded on both sides by a string edge or by
\* a character that is neither a letter nor a digit.
C7_WholeWord ==
    Matched =>
        \A i \in 1..Len(t_matches) :
            /\ (t_matches[i].start > 0) => ~IsAlnum(t_text[t_matches[i].start])
            /\ (t_matches[i].end < Len(t_text)) => ~IsAlnum(t_text[t_matches[i].end + 1])

\* S is a shorter index term that occurs in the text, and only inside
\* occurrences of the longer index term L, whose occurrences intersect the
\* occurrences of no third index term.
LongestMatchCase(S, L) ==
    /\ Len(S) < Len(L)
    /\ Occurrences(t_text, S) # {}
    /\ \A o \in Occurrences(t_text, S) :
         \E p \in Occurrences(t_text, L) : Inside(o, p)
    /\ \A T \in IndexTerms(t_cache) \ {S, L} :
         \A p \in Occurrences(t_text, L) :
            \A q \in Occurrences(t_text, T) : ~Intersect(p, q)

\* Every occurrence of L is returned, owned by L's group, and no occurrence
\* of S is.
LongestMatchResult(S, L) ==
    /\ \A p \in Occurrences(t_text, L) :
         \E i \in 1..Len(t_matches) :
            /\ RangeOf(t_matches[i]) = p
            /\ t_matches[i].dictionaryId = MapGet(t_cache.text_map, L)
    /\ \A o \in Occurrences(t_text, S) :
         \A i \in 1..Len(t_matches) : RangeOf(t_matches[i]) # o

\* No two occurrences of L share a character.
SelfDisjoint(L) ==
    \A p, q \in Occurrences(t_text, L) : (p # q) => ~Intersect(p, q)

HasTranslation(m, targetLanguage, cache) ==
    /\ m.dictionaryId \in DOMAIN cache.dictionary_map
    /\ targetLanguage \in DOMAIN cache.dictionary_map[m.dictionaryId]

\* The text from offset from on, with every span of matches (in order of
\* start) replaced by its group's translation.
RECURSIVE ReplaceSpans(_, _, _, _, _)
ReplaceSpans(text, matches, from, targetLanguage, cache) ==
    IF matches = <<>> THEN Slice(text, from, Len(text))
    ELSE LET m == Head(matches)
         IN  Slice(text, from, m.start)
               \o cache.dictionary_map[m.dictionaryId][targetLanguage]
               \o ReplaceSpans(text, Tail(matches), m.end, targetLanguage, cache)

\* C9: with an external service that returns the wrapped string unchanged,
\* wrap followed by unwrap gives the text with every matched span replaced by
\* its group's translation and everything else unchanged.
C9_RoundTrip ==
    (/\ t_pc = "done"
     /\ \A i \in 1..Len(t_matches) : HasTranslation(t_matches[i], t_lang, t_cache))
        => t_result = ReplaceSpans(t_text, t_matches, 0, t_lang, t_cache)

\* C10: when no matched group has a translation for the target language,
\* wrap followed by unwrap gives back the original text.
C10_Fallback ==
    (/\ t_pc = "done"
     /\ \A i \in 1..Len(t_matches) : ~HasTranslation(t_matches[i], t_lang, t_cache))
        => t_result = t_text


(***************************************************************************)
(* Properties of unwrapping what an altering service returns (under        *)
(* SpecService)                                                            *)
(***************************************************************************)

\* Some stretch of text is the marker of m, up to the case of its characters.
ContainsMarker(text, m) ==
    \E i \in 0..Len(text) : \E j \in i..Len(text) :
        toLowerCase(Slice(text, i, j)) = toLowerCase(Bracketed(m.term))

HasBrace(text) == \E i \in 1..Len(text) : text[i] \in {123, 125}

\* C11: unwrapAndTranslate applied to a translated text that contains the
\* marker of no match returns that text unchanged.
C11_MarkerLossTolerance ==
    (/\ t_pc = "done"
     /\ \A i \in 1..Len(t_matches) : ~ContainsMarker(t_translated, t_matches[i]))
        => t_result = t_translated

\* The service removed the braces of a marker whose term has a translation
\* that differs from it, and the text has been unwrapped.
C11_Witness ==
    /\ t_pc = "done"
    /\ Len(t_matches) >= 1
    /\ t_translated # t_wrapped
    /\ \A i \in 1..Len(t_matches) : ~ContainsMarker(t_translated, t_matches[i])
    /\ HasTranslation(t_matches[1], t_lang, t_cache)
    /\ t_cache.dictionary_map[t_matches[1].dictionaryId][t_lang] # t_matches[1].term
    /\ indexOf(t_translated, t_matches[1].term) # -1
    /\ t_result = t_translated

\* C12: when the service did not return the markers as they were sent, the
\* unwrapped result holds no raw double-brace marker.
C12_NoRawMarker ==
    (/\ t_pc = "done"
     /\ Len(t_matches) >= 1
     /\ t_translated # t_wrapped)
        => ~HasBrace(t_result)


(***************************************************************************)
(* Properties of matching under case-insensitivity (under SpecCase)        *)
(***************************************************************************)

\* C15 as stated: every match carries the substring of the text at its
\* range, the lower case of that substring is a term of the index, and the
\* match is owned by the owner of that lower-cased term.
C15_CaseAndOffset ==
    Matched =>
        \A i \in 1..Len(t_matches) :
            LET m == t_matches[i]
            IN  /\ m.term = Slice(t_text, m.start, m.end)
                /\ MapHas(t_cache.text_map, toLowerCase(m.term))
                /\ m.dictionaryId = MapGet(t_cache.text_map, toLowerCase(m.term))

\* s and t are equal under the comparison of a RegExp with the i flag.
SameIgnoringCase(s, t) ==
    /\ Len(s) = Len(t)
    /\ \A k \in 1..Len(s) : Canonicalize(s[k]) = Canonicalize(t[k])

\* C15: every match carries the substring of the text at its range, and
\* is owned by the owner of an index term that equals that substring under
\* the case-insensitive comparison of the pattern.
C15_CaseAndOffsetOfCandidate ==
    Matched =>
        \A i \in 1..Len(t_matches) :
            LET m == t_matches[i]
            IN  /\ m.term = Slice(t_text, m.start, m.end)
                /\ \E t \in IndexTerms(t_cache) :
                     /\ SameIgnoringCase(m.term, t)
                     /\ m.dictionaryId = MapGet(t_cache.text_map, t)

\* A match whose substring is in upper case where the index term is not.
C15_Witness ==
    /\ Matched
    /\ \E i \in 1..Len(t_matches) :
         /\ t_matches[i].term # toLowerCase(t_matches[i].term)
         /\ MapHas(t_cache.text_map, toLowerCase(t_matches[i].term))
         /\ t_matches[i].term = Slice(t_text, t_matches[i].start, t_matches[i].end)


(***************************************************************************)
(* Properties of the index loadProjectCache builds                         *)
(***************************************************************************)

Loaded == t_pc = "loaded"

\* The first row, in the order of the query result, whose lower-cased text is t.
FirstRowOf(rows, t) ==
    CHOOSE i \in 1..Len(rows) :
        /\ toLowerCase(rows[i].text) = t
        /\ \A j \in 1..(i - 1) : toLowerCase(rows[j].text) # t

\* C16: every lower-cased term of the index is owned by the dictionary of
\* the first row that has it as its lower-cased text; later rows of other
\* dictionaries do not change the owner.
C16_FirstWriterWins ==
    Loaded =>
        /\ \A i \in 1..Len(t_rows) :
             LET t == toLowerCase(t_rows[i].text)
             IN  /\ MapHas(t_cache.text_map, t)
                 /\ MapGet(t_cache.text_map, t) = t_rows[FirstRowOf(t_rows, t)].dictionary_id
        /\ \A k \in 1..Len(t_cache.text_map) :
             \E i \in 1..Len(t_rows) : toLowerCase(t_rows[i].text) = t_cache.text_map[k].key

\* Two rows of different dictionaries with the same lower-cased text have
\* been loaded.
C16_Witness ==
    /\ Loaded
    /\ \E i, j \in 1..Len(t_rows) :
         /\ i < j
         /\ toLowerCase(t_rows[i].text) = toLowerCase(t_rows[j].text)
         /\ t_rows[i].dictionary_id # t_rows[j].dictionary_id
         /\ MapGet(t_cache.text_map, toLowerCase(t_rows[j].text)) = t_rows[i].dictionary_id

\* The place of key t in the insertion order of text_map.
EncounterRank(cache, t) == CHOOSE k \in 1..Len(cache.text_map) : cache.text_map[k].key = t

\* C17: terms_sorted holds the keys of text_map, each once, longest first,
\* terms of one length in the order in which the rows brought them; a second
\* build from the same rows gives the same text_map and terms_sorted.
C17_TermsSorted ==
    Loaded =>
        LET ts == t_cache.terms_sorted
            again == BuildCache(t_rows, now, 2)
        IN  /\ Len(ts) = Len(t_cache.text_map)
            /\ \A k \in 1..Len(t_cache.text_map) :
                 \E i \in 1..Len(ts) : ts[i] = t_cache.text_map[k].key
            /\ \A i, j \in 1..Len(ts) : (i < j) => ts[i] # ts[j]
            /\ \A i, j \in 1..Len(ts) : (i < j) => Len(ts[i]) >= Len(ts[j])
            /\ \A i, j \in 1..Len(ts) :
                 (i < j /\ Len(ts[i]) = Len(ts[j]))
                     => EncounterRank(t_cache, ts[i]) < EncounterRank(t_cache, ts[j])
            /\ again.text_map = t_cache.text_map
            /\ again.terms_sorted = ts

\* Three terms have been loaded: two of one length, and a longer one that
\* the rows brought last and the list holds first.
C17_Witness ==
    /\ Loaded
    /\ Len(t_cache.terms_sorted) = 3
    /\ Len(t_cache.terms_sorted[2]) = Len(t_cache.terms_sorted[3])
    /\ t_cache.terms_sorted[1] = t_cache.text_map[3].key
    /\ t_cache.terms_sorted[2] = t_cache.text_map[1].key


\* x stands in the text at offset p as a whole word: with its own casing,
\* between string edges or characters that are neither letters nor digits.
WholeWordAt(text, x, p) ==
    /\ p + Len(x) <= Len(text)
    /\ Slice(text, p, p + Len(x)) = x
    /\ (p > 0) => ~IsAlnum(text[p])
    /\ (p + Len(x) < Len(text)) => ~IsAlnum(text[p + Len(x) + 1])

\* C18: every row (dictionary, language, text) puts its lower-cased text
\* among the keys of text_map and its text in dictionary_map under its
\* dictionary and language, and every whole-word occurrence of a row's text
\* in the input lies inside a returned match.
C18_AnyLanguageIndexing ==
    Matched =>
        \A i \in 1..Len(t_rows) :
            LET row == t_rows[i]
            IN  /\ MapHas(t_cache.text_map, toLowerCase(row.text))
                /\ row.dictionary_id \in DOMAIN t_cache.dictionary_map
                /\ row.language_code \in DOMAIN t_cache.dictionary_map[row.dictionary_id]
                /\ t_cache.dictionary_map[row.dictionary_id][row.language_code] = row.text
                /\ \A p \in 0..Len(t_text) :
                     WholeWordAt(t_text, row.text, p) =>
                         \E k \in 1..Len(t_matches) :
                             /\ t_matches[k].start <= p
                             /\ p + Len(row.text) <= t_matches[k].end

\* C19: when the input text is an index term, in any casing, the one match
\* returned spans the whole text.
C19_WholeTextTerm ==
    Matched =>
        \A t \in IndexTerms(t_cache) :
            (toLowerCase(t_text) = t) =>
                /\ Len(t_matches) = 1
                /\ t_matches[1].start = 0
                /\ t_matches[1].end = Len(t_text)

(***************************************************************************)
(* Properties of wrapTermsWithBrackets (under SpecText)                    *)
(***************************************************************************)

\* The text from offset from on, with every span of matches (in order of
\* start) put between double braces.
RECURSIVE SpansBraced(_, _, _)
SpansBraced(text, matches, from) ==
    IF matches = <<>> THEN Slice(text, from, Len(text))
    ELSE LET m == Head(matches)
         IN  Slice(text, from, m.start)
               \o <<123, 123>> \o Slice(text, m.start, m.end) \o <<125, 125>>
               \o SpansBraced(text, Tail(matches), m.end)

\* The matches in the order f gives them.
Reordered(matches, f) == [i \in 1..Len(matches) |-> matches[f[i]]]

\* C20: wrapTermsWithBrackets puts each matched range between double
\* braces and keeps every other character in place, whatever the order of
\* the list of matches, and the result is four characters longer per match.
C20_Wrap ==
    (t_pc = "wrapped") =>
        /\ t_wrapped = SpansBraced(t_text, t_matches, 0)
        /\ \A f \in Permutations(1..Len(t_matches)) :
             wrapTermsWithBrackets(t_text, Reordered(t_matches, f)) = t_wrapped
        /\ Len(t_wrapped) = Len(t_text) + 4 * Len(t_matches)

\* A text with two matches of terms of different lengths
\* has been wrapped.
C20_Witness ==
    /\ t_pc = "wrapped"
    /\ Len(t_matches) = 2
    /\ Len(t_matches[1].term) # Len(t_matches[2].term)
    /\ t_matches[1].start > 0
    /\ t_wrapped # t_text


(***************************************************************************)
(* Properties of failing mutations and of overlapping builds (under Spec)  *)
(***************************************************************************)

\* C29: a POST or PUT request that has changed a row of its scope has
\* invalidated the scope's cache entry, after its last row change, by the
\* time it ends, also when it ends with an error.
C29_FailedMutationInvalidates ==
    \A w \in Writers :
        (/\ Responded(req[w]) /\ req[w].kind \in {"post", "put"}
         /\ req[w].lastWrite > 0)
            => (/\ KeyOf(req[w]) \in {req[w].invalidated[i] :
                                        i \in 1..Len(req[w].invalidated)}
                /\ ~req[w].wroteAfterInval)

\* C27: the entry of a scope is never replaced by a cache built from an
\* older snapshot of the store than the snapshot the entry it replaces was
\* built from.
C27_MonotonicContent ==
    [][\A k \in Scopes :
         (/\ projectCaches[k] # NoCache /\ projectCaches'[k] # NoCache
          /\ projectCaches'[k].instance # projectCaches[k].instance)
            => built'[projectCaches'[k].instance] >= built[projectCaches[k].instance]]_vars


(***************************************************************************)
(* Properties of stale entries (under SpecHeal)                            *)
(***************************************************************************)

\* Call q has installed a cache built from rows read before a row change
\* whose invalidation came between q's query and q's install.
StaleInstall(q) ==
    /\ Returned(q) /\ q.installed
    /\ q.readInv < q.retInv
    /\ q.snap < ver[KeyOf(q)]

\* C24: once a build has put back a cache of rows read before a row change,
\* after that change's invalidation, and with no row change since, a
\* getProjectCache call of the scope issued more than TTL after that cache's
\* loaded_at queries the store and returns a cache built from the store's
\* current rows; and a call that returns an entry without querying was
\* issued at most TTL after the entry's loaded_at.
C24_SelfHealing ==
    /\ \A r, q \in ScopeReaders :
         (/\ StaleInstall(req[r])
          /\ Returned(req[q]) /\ KeyOf(req[q]) = KeyOf(req[r])
          /\ req[q].startTime - req[r].result.loaded_at > CACHE_TTL_MS)
            => (/\ req[q].queried
                /\ built[req[q].result.instance] = ver[KeyOf(req[q])])
    /\ \A q \in ScopeReaders :
         (Returned(req[q]) /\ ~req[q].queried)
            => req[q].startTime - req[q].result.loaded_at <= CACHE_TTL_MS


(***************************************************************************)
(* Properties of the built index (under SpecText)                          *)
(***************************************************************************)

\* C28: with rows unique per dictionary and language, the owner text_map
\* gives each term is a key of dictionary_map and has a language whose text
\* in lower case is the term; so the dictionaryId of every match is a key of
\* dictionary_map when the match is unwrapped.
C28_OwnerConsistency ==
    /\ Loaded =>
         \A i \in 1..Len(t_cache.text_map) :
            LET t == t_cache.text_map[i].key
                g == t_cache.text_map[i].value
            IN  /\ g \in DOMAIN t_cache.dictionary_map
                /\ \E l \in DOMAIN t_cache.dictionary_map[g] :
                      toLowerCase(t_cache.dictionary_map[g][l]) = t
    /\ Matched =>
         \A i \in 1..Len(t_matches) :
            t_matches[i].dictionaryId \in DOMAIN t_cache.dictionary_map

\* A text was matched against an index of two dictionaries that both hold
\* the matched term, and the match carries the owner of the term.
C28_Witness ==
    /\ Matched
    /\ Len(t_matches) >= 1
    /\ Cardinality(DOMAIN t_cache.dictionary_map) = 2
    /\ \A g \in DOMAIN t_cache.dictionary_map :
         \E l \in DOMAIN t_cache.dictionary_map[g] :
            toLowerCase(t_cache.dictionary_map[g][l]) = toLowerCase(t_matches[1].term)
    /\ t_matches[1].dictionaryId = MapGet(t_cache.text_map, toLowerCase(t_matches[1].term))


(***************************************************************************)
(* Properties of the translate handler (under SpecTranslate)               *)
(***************************************************************************)

\* The handler has called translateStrings.
Sent(q) == q.pc # "off" /\ q.called

\* The handler has responded with translations.
Answered(q) == q.pc = "done" /\ q.status = 200

\* skip_dictionaries is set, or the cache the handler got is empty, or no
\* string of the body has a match in it.
Unmediated(q) ==
    \/ q.skip
    \/ /\ q.cache # NoCache
       /\ \/ isCacheEmpty(q.cache)
          \/ \A i \in DOMAIN q.strings : findDictionaryTerms(q.strings[i], q.cache) = <<>>

\* C21: when skip_dictionaries is set, or the scope's index is empty, or no
\* input string has a match, the strings given to the translation service
\* are the strings of the request and the translations in the response are
\* the service's results; the handler does not enter the unwrap phase.
C21_NoMediation ==
    (Sent(h) /\ Unmediated(h)) =>
        /\ h.sent = h.strings
        /\ h.pc # "get2" /\ h.cache2 = NoCache
        /\ Answered(h) => h.translations = h.service

\* A request whose string has no match in a cache that is not empty was
\* answered with what the service returned, which is not what it was sent.
C21_Witness ==
    /\ Answered(h) /\ ~h.skip
    /\ h.cache # NoCache /\ ~isCacheEmpty(h.cache)
    /\ Unmediated(h)
    /\ h.service # h.sent
    /\ h.translations = h.service

\* The translations the handler would answer with if it unwrapped against
\* cache.
UnwrappedWith(q, cache) ==
    [i \in DOMAIN q.service |->
       IF Len(q.matches[i]) > 0
       THEN unwrapAndTranslate(q.service[i], q.matches[i], q.lang, cache)
       ELSE q.service[i]]

\* C23: the cache the handler unwraps against is the instance it matched and
\* wrapped against, and the translations in the response are the service's
\* results unwrapped against that instance, whatever happened to the
\* dictionary, the cache entry or the clock during the service call.
C23_SameIndexForUnwrap ==
    (Answered(h) /\ ~h.skip /\ HasMatches(h)) =>
        /\ h.cache2.instance = h.cache.instance
        /\ h.translations = UnwrappedWith(h, h.cache)

\* The handler holds the cache and the matches of its match phase.
Holding(q) == q.pc \in {"wrap", "translating", "get2", "get3", "done"}

\* C25: the cache and the lists of matches the handler got in its match
\* phase are the same after every later step (isCacheEmpty, wrapping,
\* unwrapping, serializeCache, and the steps of other requests); a build puts
\* a new instance in the map; and two references to one instance, in the
\* map or held by a request, always see the same content.
C25_IndexImmutable ==
    [][/\ (Holding(h) /\ h.cache # NoCache) =>
             (h'.cache = h.cache /\ h'.matches = h.matches)
       /\ (h.pc # "off" /\ h.cache2 # NoCache) => h'.cache2 = h.cache2
       /\ \A k \in Scopes :
            (projectCaches'[k] # NoCache /\ projectCaches'[k] # projectCaches[k])
                => projectCaches'[k].instance > Len(built)
       /\ \A k \in Scopes, r \in Slots :
            /\ (h'.pc # "off" /\ projectCaches'[k].instance = h'.cache.instance)
                  => projectCaches'[k] = h'.cache
            /\ (projectCaches'[k].instance = req'[r].result.instance
                  /\ req'[r].result # NoCache)
                  => projectCaches'[k] = req'[r].result]_vars

\* A request in test mode has matched a string twice, wrapped it, and, the
\* entry having expired during the service call, unwrapped it against a
\* second instance while still holding the first.
C25_Witness ==
    /\ Answered(h) /\ h.testMode
    /\ \E i \in DOMAIN h.matches : Len(h.matches[i]) >= 2
    /\ h.cache2 # NoCache /\ h.cache2.instance # h.cache.instance
    /\ h.debug # <<>>
    /\ projectCaches[getCacheKey("e1", "p1")] = h.cache2


(***************************************************************************)
(* Properties of extractDictionaryTerms (under SpecExtract)                *)
(***************************************************************************)

\* term occurs in str as a substring, letter case aside.
OccursIn(term, str) == includes(toLowerCase(str), toLowerCase(term))

\* C30: extractDictionaryTerms returns, each once and as spelled in the
\* list of terms, the terms that occur (letter case aside) as a substring of
\* one of the strings, and no other term; it returns the empty list when
\* there are no strings or no terms.
C30_Extract ==
    (h.pc = "translating" /\ h.skip) =>
        /\ \A i, j \in 1..Len(h.foundTerms) :
              (i # j) => h.foundTerms[i] # h.foundTerms[j]
        /\ {h.foundTerms[i] : i \in 1..Len(h.foundTerms)} =
              {h.dictionaryTerms[j] : j \in
                 {k \in 1..Len(h.dictionaryTerms) :
                    \E n \in 1..Len(h.strings) :
                       OccursIn(h.dictionaryTerms[k], h.strings[n])}}
        /\ (h.strings = <<>> \/ h.dictionaryTerms = <<>>) => h.foundTerms = <<>>


(***************************************************************************)
(* Properties of the scan (under SpecScan)                                 *)
(***************************************************************************)

\* C22: after findDictionaryTerms, every whole-word occurrence of every
\* index term in the text is a returned match or intersects a returned
\* match.
C22_ScanComplete ==
    Matched =>
        \A term \in IndexTerms(t_cache) :
            \A o \in Occurrences(t_text, term) :
                \E i \in 1..Len(t_matches) :
                    RangeOf(t_matches[i]) = o \/ Intersect(RangeOf(t_matches[i]), o)


(***************************************************************************)
(* Properties of the loops of findDictionaryTerms (under SpecLoop)         *)
(***************************************************************************)

\* C26: every call of findDictionaryTerms, for any text and any index built
\* from rows of the store (a row with an empty text among them), returns.
C26_ScanTerminates == <>(scan.pc = "done")

=============================================================================
